---- MODULE Spec2Model ----
(***************************************************************************)
(* A model of the quiz service: the REST session service (rest.py,         *)
(* manager.py, question_retriever.py) and the terminal LangGraph quiz      *)
(* (graph.py, quiz_main.py).                                               *)
(*                                                                         *)
(* The REST handlers are coroutines on one event loop: a handler runs      *)
(* atomically from one await that really suspends (a call of the language  *)
(* model or of the transcriber) to the next, and the QuizSession a handler *)
(* got from get_session is the very object the store holds, so every       *)
(* assignment to it is visible at once to the other handlers.              *)
(*                                                                         *)
(* Scores are counted in quarter points: 1.0 is 4, 0.5 is 2, 0.25 is 1.    *)
(***************************************************************************)
EXTENDS Integers, Sequences, FiniteSets, Bags, TLC

\* ------------------------------------------------------------------ bounds
MaxSessions == 1
MaxQuestions == 2
NumQuestions == 3
MaxTurns == 2
MaxIntents == 2
MaxTime == 2
MaxAnswered == 2
MaxSkipped == 4
MaxAsked == 2
NumGenerated == 2
MaxAnswerLen == 3
MaxCanonicalLen == 1
MaxAlternatives == 1
MaxResponseLen == 3
NumStored == 12
MaxManaged == 2
MaxParticipants == 2
MaxCandidates == 5
MaxWant == 3

\* ------------------------------------------------------- program constants
\* the time-to-live of a session; the clock counts in units of it
TtlMinutes == 1

NoQuestion == 0
NoParticipant == 0

\* InputParser.parse: the longest answer it lets through, the longest
\* question it does not compare the answers with, and the similarity (in
\* tenths) an answer may have to the question
MaxAnswerChars == 100
MinQuestionChars == 10
MaxSimilarityTenths == 7

\* QuestionRetriever.get_next_question: the candidates it asks for, and the
\* asked questions the selection compares them with
NCandidates == 50
RecentLimit == 3

VARIABLES
    collection,     \* ids of the questions the ChromaDB collection holds
    session_objs,   \* the QuizSession objects ever created, by session id
    sessions,       \* keys of SessionManager._sessions
    now,            \* the clock, in units of the time-to-live
    inflight,       \* bag of the input turns suspended at an await
    resp,           \* the last response a request returned
    quiz,           \* QuizState of the LangGraph quiz
    node,           \* the graph node that runs next ("input" between turns)
    call            \* a call of the evaluator, the parser or the retriever
                    \* followed on its own: its arguments, position and result

vars == <<collection, session_objs, sessions, now, inflight, resp, quiz, node,
          call>>
restVars == <<collection, session_objs, sessions, now, inflight, resp>>
graphVars == <<quiz, node>>

\* no call is followed
NoCall == [fn |-> "none"]

SessionIds == 1..MaxSessions
QuestionIds == 1..NumQuestions

Difficulties == <<"easy", "medium", "hard">>

\* ------------------------------------------------------------- questions
QDifficulty(q) == Difficulties[((q - 1) % 3) + 1]
QType(q) == IF q % 5 = 0 THEN "text_multichoice" ELSE "text"
QReviewStatus(q) == IF q % 3 = 1 THEN "pending_review" ELSE "approved"
QCategory(q) == IF q % 2 = 0 THEN "adults" ELSE "general"

SeqToSet(s) == {s[i] : i \in 1..Len(s)}

\* ChromaDBClient.get_question: the question, or None when the id is unknown
get_question(qid) == IF qid \in collection THEN qid ELSE NoQuestion

\* ChromaDBClient.count_questions with no filter
count_questions == Cardinality(collection)

\* How the store answers one search: whether it answers at all (up), and in
\* which order of similarity to the query it ranks the questions: by id,
\* ascending (order 1) or descending (order -1).
StoreAnswer(up, order) == [up |-> up, order |-> order]

\* ChromaDBClient.search_questions: how many results it asks the store for
fetch_count(n_results, excluded_ids) == n_results + Cardinality(excluded_ids)

\* a search that does not take the excluded ids out of what the store returns
search_without_exclusion(difficulty, categories, n_results, excluded_ids, answer) ==
    IF ~answer.up THEN {}
    ELSE LET matching ==
                 {q \in collection :
                    /\ difficulty # "any" => QDifficulty(q) = difficulty
                    /\ QType(q) = "text"
                    /\ QReviewStatus(q) = "approved"
                    /\ categories # {} => QCategory(q) \in categories}
             Nearer(q) == {p \in matching : answer.order * p < answer.order * q}
         IN  {q \in matching :
                Cardinality(Nearer(q)) < fetch_count(n_results, excluded_ids)}

\* ChromaDBClient.search_questions: of the questions matching the equality
\* filters, the fetch_count most similar to the query, minus the excluded
\* ids; an exception of the store yields [].
search_questions(difficulty, categories, n_results, excluded_ids, answer) ==
    IF ~answer.up THEN {}
    ELSE LET matching ==
                 {q \in collection :
                    /\ difficulty # "any" => QDifficulty(q) = difficulty
                    /\ QType(q) = "text"
                    /\ QReviewStatus(q) = "approved"
                    /\ categories # {} => QCategory(q) \in categories}
             Nearer(q) == {p \in matching : answer.order * p < answer.order * q}
         IN  {q \in matching :
                /\ Cardinality(Nearer(q)) < fetch_count(n_results, excluded_ids)
                /\ q \notin excluded_ids}

\* --------------------------------------------------------------- retriever
\* QuestionRetriever._determine_difficulty: the difficulties the call may use
determine_difficulty(session) ==
    IF session.current_difficulty = "random"
    THEN SeqToSet(Difficulties)
    ELSE {session.current_difficulty}

\* QuestionRetriever._build_metadata_filters: the category constraint
build_metadata_filters(session) == session.preferred_categories

\* the difficulties of fallback 2, in the order they are tried
difficulty_fallback(question_difficulty) ==
    SelectSeq(Difficulties, LAMBDA d : d # question_difficulty)

\* a fallback whose last search asks the store for any question left
fallback_without_last_filters(question_difficulty, n_candidates, excluded_ids, ups) ==
    LET fb == difficulty_fallback(question_difficulty)
    IN  <<search_questions(question_difficulty, {}, n_candidates, excluded_ids,
                           ups[2])>>
        \o [i \in 1..Len(fb) |->
               search_questions(fb[i], {}, n_candidates, excluded_ids,
                                ups[2 + i])]
        \o <<IF ups[3 + Len(fb)].up THEN collection \ excluded_ids ELSE {}>>

\* QuestionRetriever._fallback_retrieval as the list of its searches, in
\* order; ups[i] says whether the store answers the i-th search of the call
fallback_retrieval(question_difficulty, n_candidates, excluded_ids, ups) ==
    LET fb == difficulty_fallback(question_difficulty)
    IN  <<search_questions(question_difficulty, {}, n_candidates, excluded_ids,
                           ups[2])>>
        \o [i \in 1..Len(fb) |->
               search_questions(fb[i], {}, n_candidates, excluded_ids,
                                ups[2 + i])]
        \o <<search_questions("any", {}, n_candidates, excluded_ids,
                              ups[3 + Len(fb)])>>

FirstNonEmpty(chain) ==
    IF \E i \in 1..Len(chain) : chain[i] # {}
    THEN chain[CHOOSE i \in 1..Len(chain) :
                 /\ chain[i] # {}
                 /\ \A j \in 1..(i - 1) : chain[j] = {}]
    ELSE {}

\* a retriever that forgets the session's history
excluded_without_history(session, client_excluded_ids) == client_excluded_ids

\* the ids get_next_question excludes: the session's history and the client's
all_excluded_ids(session, client_excluded_ids) ==
    SeqToSet(session.asked_question_ids) \cup client_excluded_ids

\* the candidate set get_next_question selects from
Candidates(session, n_candidates, client_excluded_ids, question_difficulty, ups) ==
    LET excluded == all_excluded_ids(session, client_excluded_ids)
        primary == search_questions(question_difficulty,
                       build_metadata_filters(session), n_candidates, excluded,
                       ups[1])
    IN  FirstNonEmpty(<<primary>>
            \o fallback_retrieval(question_difficulty, n_candidates, excluded,
                                  ups))

\* Which searches of one call the store answers. Every search of the chain
\* returns a subset of what its last search returns, so these patterns (all
\* answered, none, only the last one or two) give every result that any of
\* the 64 patterns gives. The service asks for NCandidates questions, more
\* than the collections followed with it hold, so that the order the store
\* ranks them in makes no difference.
StoreAnswers ==
    {[i \in 1..6 |-> StoreAnswer(TRUE, 1)], [i \in 1..6 |-> StoreAnswer(FALSE, 1)],
     [i \in 1..6 |-> StoreAnswer(i >= 5, 1)],
     [i \in 1..6 |-> StoreAnswer(i >= 6, 1)]}

\* QuestionRetriever.get_next_question: every question the call may return
\* (the selection among the candidates is random), NoQuestion for None
get_next_question(session, n_candidates, client_excluded_ids) ==
    UNION {LET c == Candidates(session, n_candidates, client_excluded_ids, d, ups)
           IN  IF c = {} THEN {NoQuestion} ELSE c :
           d \in determine_difficulty(session), ups \in StoreAnswers}

\* QuestionRetriever._get_recent_questions: the last RecentLimit asked
\* questions that get_question finds; it finds none when the store does not
\* answer (up), for get_question returns None on every exception
get_recent_questions(session, up) ==
    LET asked == session.asked_question_ids
        recent_ids == {asked[i] : i \in {j \in 1..Len(asked) :
                                            j > Len(asked) - RecentLimit}}
    IN  IF up THEN {qid \in recent_ids : get_question(qid) # NoQuestion}
        ELSE {}

\* QuestionRetriever._select_with_semantic_diversity: the candidates the
\* random choice draws from, or that the selection raises. With no question
\* asked it draws from all. With no recent question found it goes by topic,
\* which excludes nothing because nothing sets session.current_topic. With
\* recent questions it calls _calculate_semantic_diversity, which reads
\* candidate.embedding: Question declares no such field, so the read raises
\* AttributeError before any score is computed, and lines 336-346 never run.
select_with_semantic_diversity(candidates, session, up) ==
    IF session.asked_question_ids = <<>>
    THEN [raises |-> FALSE, choices |-> candidates]
    ELSE IF get_recent_questions(session, up) = {}
    THEN [raises |-> FALSE, choices |-> candidates]
    ELSE [raises |-> TRUE, choices |-> {}]

\* ------------------------------------------------------- session manager
Participant(participant_id, is_host) ==
    [participant_id |-> participant_id, score |-> 0, answered_count |-> 0,
     is_host |-> is_host]

\* SessionManager.create_session, then the language and category rest.py adds
NewSession(session_id, max_questions, difficulty, mode, category) ==
    [session_id |-> session_id,
     mode |-> mode,
     phase |-> "idle",
     max_questions |-> max_questions,
     current_difficulty |-> difficulty,
     category |-> category,
     preferred_categories |-> {},
     preferred_topics |-> <<>>,
     disliked_topics |-> <<>>,
     asked_question_ids |-> <<>>,
     current_question_id |-> NoQuestion,
     participants |-> IF mode = "single" THEN <<Participant(1, TRUE)>> ELSE <<>>,
     expires_at |-> now + TtlMinutes]

Created(sid) == sid \in 1..Len(session_objs)

\* the session get_session finds is stored and its expiry is not in the past
Expired(sid) == sid \in sessions /\ session_objs[sid].expires_at < now
Found(sid) == sid \in sessions /\ ~Expired(sid)

\* SessionManager.delete_session: the keys left in the store
delete_session(keys, sid) == keys \ {sid}

\* a read that leaves the session it finds expired in the store
get_without_eviction(keys, sid) == keys

\* SessionManager.get_session evicts the session it finds expired
get_session(keys, sid) ==
    IF sid \in keys /\ session_objs[sid].expires_at < now
    THEN delete_session(keys, sid)
    ELSE keys

\* an update that stores the session without asking whether it is stored
update_unguarded(keys, sid) == keys \cup {sid}

\* SessionManager.update_session: a session that is no longer stored is not
\* stored again; the object written is the one the store already holds
update_session(keys, sid) ==
    IF sid \notin keys THEN keys ELSE keys \cup {sid}

\* SessionManager._cleanup_expired: the keys the sweep leaves
cleanup_expired(keys) ==
    {sid \in keys : ~(session_objs[sid].expires_at < now)}

\* ---------------------------------------------------------------- responses
NoResp ==
    [op |-> "none", sid |-> 0, status |-> 0, message |-> "none",
     phase |-> "none", current_question |-> NoQuestion, evaluation |-> "none"]

\* a response; phase is the phase the session has when the request returns.
\* The texts of feedback_received are left out: they repeat the evaluation
\* and the intents and change nothing in the session.
Response(op, sid, status, message, phase, question, evaluation) ==
    [op |-> op, sid |-> sid, status |-> status, message |-> message,
     phase |-> phase, current_question |-> question, evaluation |-> evaluation]

ErrorResponse(op, sid, status, message) ==
    Response(op, sid, status, message,
             IF Created(sid) THEN session_objs[sid].phase ELSE "none",
             NoQuestion, "none")

CreateDifficulties == {"medium"}
CreateModes == {"single"}
CreateCategories == {"none"}

\* POST /sessions
CreateSession(max_questions, difficulty, mode, category) ==
    /\ Len(session_objs) < MaxSessions
    /\ LET sid == Len(session_objs) + 1
           session == NewSession(sid, max_questions, difficulty, mode, category)
       IN  /\ session_objs' = Append(session_objs, session)
           /\ sessions' = update_session(sessions \cup {sid}, sid)
           /\ resp' = Response("create", sid, 201, "created", "idle",
                               NoQuestion, "none")
    /\ UNCHANGED <<collection, now, inflight, quiz, node, call>>

\* GET /sessions/{session_id}
ReadSession(sid) ==
    /\ sessions' = get_session(sessions, sid)
    /\ resp' = IF Found(sid)
               THEN Response("get", sid, 200, "found", session_objs[sid].phase,
                             NoQuestion, "none")
               ELSE ErrorResponse("get", sid, 404, "not_found")
    /\ UNCHANGED <<collection, session_objs, now, inflight, quiz, node, call>>

\* DELETE /sessions/{session_id}
DeleteSession(sid) ==
    /\ sessions' = delete_session(sessions, sid)
    /\ resp' = IF sid \in sessions
               THEN Response("delete", sid, 204, "deleted",
                             session_objs[sid].phase, NoQuestion, "none")
               ELSE ErrorResponse("delete", sid, 404, "not_found")
    /\ UNCHANGED <<collection, session_objs, now, inflight, quiz, node, call>>

\* the clock advances
Tick ==
    /\ now < MaxTime
    /\ now' = now + 1
    /\ UNCHANGED <<collection, session_objs, sessions, inflight, resp, quiz, node, call>>

\* SessionManager._cleanup_loop: one sweep
CleanupExpired ==
    /\ \E sid \in sessions : Expired(sid)
    /\ sessions' = cleanup_expired(sessions)
    /\ UNCHANGED <<collection, session_objs, now, inflight, resp, quiz, node, call>>

\* POST /sessions/{session_id}/start
StartQuiz(sid) ==
    /\ LET keys == get_session(sessions, sid)
       IN  IF ~Found(sid)
           THEN /\ resp' = ErrorResponse("start", sid, 404, "not_found")
                /\ sessions' = keys
                /\ UNCHANGED session_objs
           ELSE IF session_objs[sid].phase # "idle"
           THEN /\ resp' = ErrorResponse("start", sid, 400, "already_started")
                /\ sessions' = keys
                /\ UNCHANGED session_objs
           ELSE LET started == [session_objs[sid] EXCEPT
                                   !.phase = "asking",
                                   !.asked_question_ids = <<>>]
                IN  \E question \in get_next_question(started, NCandidates, {}) :
                      IF question = NoQuestion
                      THEN \* the HTTPException leaves the assignments above
                           /\ session_objs' =
                                  [session_objs EXCEPT ![sid] = started]
                           /\ sessions' = keys
                           /\ resp' = Response("start", sid, 500,
                                  IF count_questions = 0 THEN "database_empty"
                                                         ELSE "no_match",
                                  "asking", NoQuestion, "none")
                      ELSE /\ session_objs' = [session_objs EXCEPT ![sid] =
                                  [started EXCEPT
                                     !.current_question_id = question,
                                     !.asked_question_ids = Append(@, question)]]
                           /\ sessions' = update_session(keys, sid)
                           /\ resp' = Response("start", sid, 200,
                                  "quiz_started", "asking", question, "none")
    /\ UNCHANGED <<collection, now, inflight, quiz, node, call>>

\* ------------------------------------------------------------ input turns
\* The parser's output after its validation pass. The data of an intent is
\* its extracted text as a sequence of tokens: an answer is empty, the
\* normalized canonical answer ("exact") or something else ("other"); a
\* topic to avoid starts with "-".
Intent(intent_type, data) == [intent_type |-> intent_type, data |-> data]

AnswerTexts == {<<>>, <<"exact">>, <<"other">>}
TopicTexts == {<<"-", "geography">>}

Intents ==
    {Intent("answer", a) : a \in AnswerTexts}
    \cup {Intent(t, <<>>) : t \in {"skip", "rating", "unclear"}}
    \cup {Intent("preference_change", t) : t \in TopicTexts}

\* the intent lists of at most n intents
IntentLists(n) == UNION {[1..k -> Intents] : k \in 0..n}

\* the verdicts the judge is let to return
Verdicts == {"partially_correct", "incorrect"}

\* AnswerEvaluator.evaluate: score_map, in quarter points
score_delta(result) ==
    CASE result = "correct" -> 4
      [] result = "partially_correct" -> 2
      [] result = "partially_incorrect" -> 1
      [] OTHER -> 0

\* AnswerEvaluator.evaluate, the paths that call no judge
evaluate_fast(answer) == IF answer = <<>> THEN "skipped" ELSE "correct"

\* whether evaluate has to await the judge for this answer
NeedsJudge(intent) ==
    intent.intent_type = "answer" /\ intent.data = <<"other">>

\* submit_input: "Update participant score"
update_participant_score(participants, participant_id, delta) ==
    IF participant_id # NoParticipant
    THEN [i \in 1..Len(participants) |->
            IF participants[i].participant_id = participant_id
            THEN [participants[i] EXCEPT !.score = @ + delta,
                                         !.answered_count = @ + 1]
            ELSE participants[i]]
    ELSE IF Len(participants) > 0
    THEN [participants EXCEPT ![1] = [@ EXCEPT !.score = @ + delta,
                                               !.answered_count = @ + 1]]
    ELSE participants

\* submit_input, the answer branch once evaluate has returned result
apply_answer(st, result, participant_id) ==
    [session |-> [st.session EXCEPT !.participants =
                     update_participant_score(@, participant_id,
                                              score_delta(result))],
     evaluation |-> result]

\* a preference_change that appends the topic without looking for it
apply_preference_appending(st, topic) ==
    IF Len(topic) > 0 /\ Head(topic) = "-"
    THEN [st EXCEPT !.session.disliked_topics = Append(@, Tail(topic))]
    ELSE [st EXCEPT !.session.preferred_topics = Append(@, topic)]

\* submit_input, the preference_change branch
apply_preference(st, topic) ==
    IF Len(topic) > 0 /\ Head(topic) = "-"
    THEN [st EXCEPT
            !.session.disliked_topics =
                IF Tail(topic) \in SeqToSet(@) THEN @ ELSE Append(@, Tail(topic))]
    ELSE [st EXCEPT
            !.session.preferred_topics =
                IF topic \in SeqToSet(@) THEN @ ELSE Append(@, topic)]

\* submit_input / transcribe_and_submit: one pass of "for intent in intents"
\* for an intent that needs no judge; a rating (which only submit_input
\* handles) and the intents no branch handles leave the session as it is
apply_intent(st, intent, participant_id, voice) ==
    CASE intent.intent_type = "answer" ->
            apply_answer(st, evaluate_fast(intent.data), participant_id)
      [] intent.intent_type = "skip" ->
            [st EXCEPT !.evaluation = "skipped"]
      [] intent.intent_type = "difficulty_change" ->
            [st EXCEPT !.session.current_difficulty = intent.data[1]]
      [] intent.intent_type = "preference_change" ->
            apply_preference(st, intent.data)
      [] intent.intent_type = "category_change" ->
            [st EXCEPT !.session.category = intent.data[1]]
      [] OTHER -> st

\* the intent loop up to its end or to the first answer that awaits the judge
RECURSIVE process_intents(_, _, _, _)
process_intents(st, intents, participant_id, voice) ==
    IF intents = <<>> THEN [st |-> st, pending |-> <<>>]
    ELSE IF NeedsJudge(Head(intents)) THEN [st |-> st, pending |-> intents]
    ELSE process_intents(apply_intent(st, Head(intents), participant_id, voice),
                         Tail(intents), participant_id, voice)

\* A turn suspended at an await: its locals, and the session by reference.
\* The classifier's list is revealed as the loop consumes it: processed
\* counts the intents consumed so far, the last of them being the answer
\* the judge is asked about when pc is "judging".
Turn(sid, pc, voice, participant_id, current_question, processed, evaluation) ==
    [sid |-> sid, pc |-> pc, voice |-> voice, participant_id |-> participant_id,
     current_question |-> current_question, processed |-> processed,
     evaluation |-> evaluation]

OpOf(voice) == IF voice THEN "voice" ELSE "input"

\* an exception leaving the handler: submit_input lets it through (500),
\* transcribe_and_submit wraps it, and every HTTPException raised inside its
\* try block, into "Voice submission failed" (500)
Failure(voice, sid, message) ==
    ErrorResponse(OpOf(voice), sid, 500,
                  IF voice THEN "voice_failed" ELSE message)

\* submit_input from "Check if quiz is finished" to the return
finish_turn(voice, sid, st, keys, bag) ==
    LET session == st.session
        Store(s) == [session_objs EXCEPT ![sid] = s]
    IN  /\ inflight' = bag
        /\ IF Len(session.asked_question_ids) >= session.max_questions
           THEN /\ session_objs' = Store([session EXCEPT !.phase = "finished"])
                /\ sessions' = update_session(keys, sid)
                /\ resp' = Response(OpOf(voice), sid, 200, "completed",
                               "finished", NoQuestion, st.evaluation)
           ELSE \/ \E next_question \in get_next_question(session, NCandidates, {}) :
                     IF next_question = NoQuestion
                     THEN /\ session_objs' =
                                Store([session EXCEPT !.phase = "finished"])
                          /\ sessions' = update_session(keys, sid)
                          /\ resp' = Response(OpOf(voice), sid, 200,
                                 "no_more_questions", "finished", NoQuestion,
                                 st.evaluation)
                     ELSE /\ session_objs' = Store([session EXCEPT
                                 !.current_question_id = next_question,
                                 !.asked_question_ids = Append(@, next_question),
                                 !.phase = "asking"])
                          /\ sessions' = update_session(keys, sid)
                          /\ resp' = Response(OpOf(voice), sid, 200,
                                 "input_processed", "asking", next_question,
                                 st.evaluation)
                \* the selection raises when it finds the recent questions
                \* (select_with_semantic_diversity); the branch above is then
                \* the call in which the store does not answer get_question
                \/ /\ session.asked_question_ids # <<>>
                   /\ get_next_question(session, NCandidates, {}) # {NoQuestion}
                   /\ session_objs' = Store(session)
                   /\ sessions' = keys
                   /\ resp' = Response(OpOf(voice), sid, 500,
                          IF voice THEN "voice_failed" ELSE "error",
                          session.phase, NoQuestion, "none")

\* failing turns can be repeated without end, each adding to the scores: the
\* model stops at MaxAnswered evaluations per participant
WithinBounds(session) ==
    \A i \in 1..Len(session.participants) :
        session.participants[i].answered_count <= MaxAnswered

\* the intent loop over the next intents of the list, and what follows it:
\* the return when the list ends, the await of the judge when the last of
\* these intents is an answer that needs it
run_intents(voice, sid, participant_id, current_question, st, processed, intents, keys, bag) ==
    LET r == process_intents(st, intents, participant_id, voice)
    IN  /\ Len(r.pending) <= 1
        /\ WithinBounds(r.st.session)
        /\ IF r.pending = <<>>
           THEN finish_turn(voice, sid, r.st, keys, bag)
           ELSE /\ session_objs' = [session_objs EXCEPT ![sid] = r.st.session]
                /\ sessions' = keys
                /\ inflight' = bag (+) SetToBag({Turn(sid, "judging", voice,
                       participant_id, current_question,
                       processed + Len(intents), r.st.evaluation)})
                /\ UNCHANGED resp

\* InputParser.parse: the inputs it answers without the language model
InputKinds == {"skip", "quit", "other"}
fast_path(input) ==
    IF input = "skip" THEN <<Intent("skip", <<>>)>> ELSE <<Intent("quit", <<>>)>>

\* the call of input_parser.parse and, when it does not suspend, the rest
call_parse(voice, sid, participant_id, current_question, input, keys, bag) ==
    LET st == [session |-> session_objs[sid], evaluation |-> "none"]
    IN  IF input = "other"
        THEN /\ inflight' = bag (+) SetToBag({Turn(sid, "parsing", voice,
                    participant_id, current_question, 0, "none")})
             /\ sessions' = keys
             /\ UNCHANGED <<session_objs, resp>>
        ELSE run_intents(voice, sid, participant_id, current_question, st, 0,
                         fast_path(input), keys, bag)

ParticipantIds == {NoParticipant, 1}

\* POST /sessions/{session_id}/input and POST /voice/submit/{session_id},
\* up to the first await
BeginTurn(sid, participant_id, voice, input) ==
    /\ LET keys == get_session(sessions, sid)
       IN  IF ~Found(sid)
           THEN /\ resp' = ErrorResponse(OpOf(voice), sid, 404, "not_found")
                /\ sessions' = keys
                /\ UNCHANGED <<session_objs, inflight>>
           ELSE IF session_objs[sid].phase \notin {"asking", "awaiting_answer"}
           THEN /\ resp' = ErrorResponse(OpOf(voice), sid, 400, "not_waiting")
                /\ sessions' = keys
                /\ UNCHANGED <<session_objs, inflight>>
           ELSE IF get_question(session_objs[sid].current_question_id) = NoQuestion
           THEN /\ resp' = Failure(voice, sid, "question_not_found")
                /\ sessions' = keys
                /\ UNCHANGED <<session_objs, inflight>>
           ELSE /\ BagCardinality(inflight) < MaxTurns
                /\ IF voice
                   THEN /\ input = "other"
                        /\ inflight' = inflight (+) SetToBag({Turn(sid,
                               "transcribing", TRUE, participant_id,
                               session_objs[sid].current_question_id, 0,
                               "none")})
                        /\ sessions' = keys
                        /\ UNCHANGED <<session_objs, resp>>
                   ELSE call_parse(FALSE, sid, participant_id,
                            session_objs[sid].current_question_id, input,
                            keys, inflight)
    /\ UNCHANGED <<collection, now, quiz, node, call>>

Without(turn) == inflight (-) SetToBag({turn})

\* voice_transcriber.transcribe_with_quiz_context returns
TranscribeReturn(turn, outcome, input) ==
    /\ turn \in BagToSet(inflight)
    /\ turn.pc = "transcribing"
    /\ IF outcome # "speech"
       THEN /\ input = "other"
            /\ resp' = Failure(TRUE, turn.sid, "voice_failed")
            /\ inflight' = Without(turn)
            /\ UNCHANGED <<session_objs, sessions>>
       ELSE call_parse(TRUE, turn.sid, turn.participant_id,
                turn.current_question, input, sessions, Without(turn))
    /\ UNCHANGED <<collection, now, quiz, node, call>>

\* input_parser.parse returns; intents are the validated intents up to the
\* end of the list or to the first answer that needs the judge
ParseReturn(turn, intents) ==
    /\ turn \in BagToSet(inflight)
    /\ turn.pc = "parsing"
    /\ run_intents(turn.voice, turn.sid, turn.participant_id,
           turn.current_question,
           [session |-> session_objs[turn.sid], evaluation |-> "none"],
           0, intents, sessions, Without(turn))
    /\ UNCHANGED <<collection, now, quiz, node, call>>

\* an awaited call of the language model (classifier or judge) fails
ModelCallFails(turn) ==
    /\ turn \in BagToSet(inflight)
    /\ turn.pc \in {"parsing", "judging"}
    /\ resp' = Failure(turn.voice, turn.sid, "error")
    /\ inflight' = Without(turn)
    /\ UNCHANGED <<collection, session_objs, sessions, now, quiz, node, call>>

\* answer_evaluator.evaluate returns the judge's verdict; intents are the
\* intents that follow the answer in the list
JudgeReturn(turn, verdict, intents) ==
    /\ turn \in BagToSet(inflight)
    /\ turn.pc = "judging"
    /\ Len(intents) <= MaxIntents - turn.processed
    /\ run_intents(turn.voice, turn.sid, turn.participant_id,
           turn.current_question,
           apply_answer([session |-> session_objs[turn.sid],
                         evaluation |-> turn.evaluation],
                        verdict, turn.participant_id),
           turn.processed, intents, sessions, Without(turn))
    /\ UNCHANGED <<collection, now, quiz, node, call>>

\* ------------------------------------------------------ the terminal quiz
\* The quiz of graph.py, run by the loop of quiz_main.py: one input at a
\* time, each taken through the nodes of the graph. Texts are kept by kind:
\* an answer is "None", "" (empty), "exact" (it normalizes to the expected
\* answer) or "other"; an output is its kind and the score line it shows.
NoOutput == [kind |-> "none", score |-> 0, answered |-> 0]
Output(kind, score, answered) ==
    [kind |-> kind, score |-> score, answered |-> answered]

\* get_initial_state, once main has printed the welcome
get_initial_state(max_questions) ==
    [phase |-> "idle",
     question_number |-> 0,
     max_questions |-> max_questions,
     current_question |-> NoQuestion,
     current_difficulty |-> "medium",
     last_user_answer |-> "None",
     last_result |-> "None",
     score |-> 0,
     pending_output |-> NoOutput,
     asked_questions |-> <<>>,
     excluded_topics |-> <<>>,
     preferred_topics |-> <<>>,
     bad_examples |-> <<>>,
     skipped_question_numbers |-> <<>>,
     auto_advance |-> FALSE]

\* an intent of the classifier's JSON: its type, the datum extracted for it
\* and whether it carries a confirmation message
GraphIntent(intent_type, data, confirmation) ==
    [intent_type |-> intent_type, data |-> data, confirmation |-> confirmation]

GraphIntents ==
    {GraphIntent("answer", a, FALSE) : a \in {"", "exact", "other"}}
    \cup {GraphIntent(t, "", FALSE) :
            t \in {"skip", "bad_question", "start", "explanation_request",
                   "unclear"}}
    \cup {GraphIntent("preference_change", d, c) :
            d \in {"avoid", "harder", "easier"}, c \in BOOLEAN}

GraphIntentLists(n) == UNION {[1..k -> GraphIntents] : k \in 0..n}

\* the dict a node returns: the keys it sets
EmptyResult == [k \in {} |-> TRUE]
Set(result, key, value) == (key :> value) @@ result
Pop(result, key) == [k \in (DOMAIN result) \ {key} |-> result[k]]

\* LangGraph writes the keys a node returns over the state
Merge(state, result) ==
    [k \in DOMAIN state |-> IF k \in DOMAIN result THEN result[k] ELSE state[k]]

AppendNew(seq, x) == IF x \in SeqToSet(seq) THEN seq ELSE Append(seq, x)

\* process_input, "Handle difficulty change"
step_difficulty(current_difficulty, direction) ==
    LET current_idx == CHOOSE i \in 1..3 : Difficulties[i] = current_difficulty
    IN  IF direction = "easier"
        THEN Difficulties[IF current_idx - 1 < 1 THEN 1 ELSE current_idx - 1]
        ELSE Difficulties[IF current_idx + 1 > 3 THEN 3 ELSE current_idx + 1]

\* the locals of process_input before its loop over the intents
NoIntentYet ==
    [result |-> EmptyResult, confirmations |-> FALSE, has_answer |-> FALSE,
     should_skip |-> FALSE, should_auto_advance |-> FALSE]

\* process_input: one pass of "for intent in intents"
handle_intent(state, acc, intent) ==
    CASE intent.intent_type = "answer" ->
            [acc EXCEPT
               !.has_answer = TRUE,
               !.result = Set(Set(@, "last_user_answer", intent.data),
                              "phase", "evaluating")]
      [] intent.intent_type = "skip" ->
            [acc EXCEPT
               !.should_skip = TRUE,
               !.confirmations = TRUE,
               !.result = Set(Set(Set(Set(@, "phase", "evaluating"),
                              "last_user_answer", ""),
                              "last_result", "skipped"),
                              "skipped_question_numbers",
                              Append(state.skipped_question_numbers,
                                     state.question_number))]
      [] intent.intent_type = "bad_question" ->
            [acc EXCEPT
               !.confirmations = TRUE,
               !.should_auto_advance = @ \/ state.phase = "awaiting_answer",
               !.result =
                  IF /\ state.current_question # NoQuestion
                     /\ state.current_question \notin SeqToSet(state.bad_examples)
                  THEN Set(@, "bad_examples",
                           Append(state.bad_examples, state.current_question))
                  ELSE @]
      [] intent.intent_type = "preference_change" ->
            [acc EXCEPT
               !.confirmations = @ \/ intent.confirmation,
               !.result =
                  CASE intent.data = "avoid" ->
                          Set(@, "excluded_topics",
                              AppendNew(state.excluded_topics, "geography"))
                    [] intent.data = "prefer" ->
                          Set(@, "preferred_topics",
                              AppendNew(state.preferred_topics, "geography"))
                    [] OTHER ->
                          Set(@, "current_difficulty",
                              step_difficulty(state.current_difficulty,
                                              intent.data))]
      [] intent.intent_type = "start" ->
            [acc EXCEPT
               !.result = Set(Set(Set(@, "phase", "asking"),
                              "question_number", 1), "score", 0)]
      [] intent.intent_type = "explanation_request" ->
            [acc EXCEPT !.confirmations = TRUE]
      [] OTHER -> acc

RECURSIVE handle_intents(_, _, _)
handle_intents(state, acc, intents) ==
    IF intents = <<>> THEN acc
    ELSE handle_intents(state, handle_intent(state, acc, Head(intents)),
                        Tail(intents))

\* process_input, the quit fast path: the text it ends the quiz with
quit_output(state) ==
    LET current_q == state.question_number
        final_score == IF current_q > 0 THEN current_q - 1 ELSE 0
        total_answered == final_score - Len(state.skipped_question_numbers)
    IN  IF total_answered <= 0
        THEN Output("quiz_ended_none", 0, 0)
        ELSE Output("quiz_ended", state.score, total_answered)

\* process_input after the loop: the dict it returns
after_intents(state, acc) ==
    LET bare == /\ state.phase = "awaiting_answer"
                /\ acc.confirmations
                /\ ~acc.has_answer
                /\ ~acc.should_skip
        confirmed ==
            IF bare
            THEN Pop(Set(acc.result, "pending_output",
                         Output("confirmations", 0, 0)), "phase")
            ELSE IF acc.confirmations
            THEN Set(acc.result, "pending_output", Output("confirmations", 0, 0))
            ELSE acc.result
    IN  IF state.phase = "idle" /\ DOMAIN acc.result = {}
        THEN Set(EmptyResult, "pending_output", Output("type_start", 0, 0))
        ELSE IF ~acc.should_auto_advance THEN confirmed
        ELSE IF acc.has_answer THEN Set(confirmed, "auto_advance", TRUE)
        ELSE Set(Set(Set(confirmed, "phase", "asking"),
                     "last_result", "skipped"),
                 "skipped_question_numbers",
                 Append(state.skipped_question_numbers, state.question_number))

GraphInputs == {"quit", "list", "start", "other"}

\* process_input: the dict it returns for an input of the given kind, the
\* classifier answering with intents when it is asked
process_input(state, input, intents) ==
    IF input = "quit"
    THEN Set(Set(EmptyResult, "phase", "finished"),
             "pending_output", quit_output(state))
    ELSE IF input = "list"
    THEN Set(EmptyResult, "pending_output", Output("bad_list", 0, 0))
    ELSE IF state.phase = "idle" /\ input = "start"
    THEN Set(Set(Set(EmptyResult, "phase", "asking"), "question_number", 1),
             "score", 0)
    ELSE after_intents(state, handle_intents(state, NoIntentYet, intents))

\* route_after_input and route_after_feedback; END hands the state to main
route_after_input(phase) ==
    CASE phase = "asking" -> "generate_question"
      [] phase = "evaluating" -> "evaluate_answer"
      [] OTHER -> "print"

route_after_feedback(phase) ==
    IF phase = "asking" THEN "generate_question" ELSE "print"

\* the turns a quiz is followed for: the list of skipped numbers grows with
\* every restart and every question marked bad, by at most two a turn
GraphWithinBounds ==
    Len(quiz.skipped_question_numbers) + 2 <= MaxSkipped

\* main reads a line and invokes the graph, which runs process_input
ProcessInput(input, intents) ==
    /\ node = "input"
    /\ GraphWithinBounds
    /\ input # "other" => intents = <<>>
    /\ LET state == [quiz EXCEPT !.pending_output = NoOutput]
           next == Merge(state, process_input(state, input, intents))
       IN  /\ quiz' = next
           /\ node' = route_after_input(next.phase)
    /\ UNCHANGED <<restVars, call>>

\* generate_question: the model writes question (the quiz is followed up to
\* MaxAsked questions)
GenerateQuestion(question) ==
    /\ node = "generate_question"
    /\ Len(quiz.asked_questions) < MaxAsked
    /\ quiz' = [quiz EXCEPT
                  !.current_question = question,
                  !.phase = "awaiting_answer",
                  !.pending_output = Output("question", @.score, @.answered),
                  !.asked_questions = Append(@, question)]
    /\ node' = "print"
    /\ UNCHANGED <<restVars, call>>

GraphVerdicts == {"correct", "partially_correct", "partially_incorrect",
                  "incorrect"}

\* evaluate_answer; normalize_text raises on the None that current_answer is
\* before the first question, and the exception ends the program
EvaluateAnswer(verdict) ==
    /\ node = "evaluate_answer"
    /\ IF quiz.last_user_answer \in {"None", ""} \/ quiz.last_result = "skipped"
       THEN /\ verdict = "incorrect"
            /\ quiz' = [quiz EXCEPT
                          !.last_result = "skipped",
                          !.phase = "finding_source",
                          !.skipped_question_numbers =
                              Append(@, quiz.question_number)]
            /\ node' = "find_source"
       ELSE IF quiz.current_question = NoQuestion
       THEN /\ verdict = "incorrect"
            /\ node' = "crashed"
            /\ UNCHANGED quiz
       ELSE LET result == IF quiz.last_user_answer = "exact" THEN "correct"
                          ELSE verdict
            IN  /\ quiz.last_user_answer = "exact" => verdict = "correct"
                /\ quiz' = [quiz EXCEPT
                              !.last_result = result,
                              !.score = @ + score_delta(result),
                              !.phase = "finding_source"]
                /\ node' = "find_source"
    /\ UNCHANGED <<restVars, call>>

\* find_source, or skip_source when no search tool is configured
FindSource ==
    /\ node = "find_source"
    /\ quiz' = [quiz EXCEPT !.phase = "providing_feedback"]
    /\ node' = "provide_feedback"
    /\ UNCHANGED <<restVars, call>>

\* provide_feedback
ProvideFeedback ==
    /\ node = "provide_feedback"
    /\ LET total_answered ==
               quiz.question_number - Len(quiz.skipped_question_numbers)
           done == quiz.question_number >= quiz.max_questions
           feedback ==
               IF total_answered = 0
               THEN Output(IF done THEN "complete_none" ELSE "feedback_none",
                           quiz.score, 0)
               ELSE Output(IF done THEN "complete" ELSE "feedback",
                           quiz.score, total_answered)
       IN  /\ quiz' = IF done
                      THEN [quiz EXCEPT !.pending_output = feedback,
                                        !.phase = "finished",
                                        !.auto_advance = FALSE]
                      ELSE [quiz EXCEPT !.pending_output = feedback,
                                        !.phase = "asking",
                                        !.question_number = @ + 1,
                                        !.auto_advance = FALSE]
           /\ node' = route_after_feedback(quiz'.phase)
    /\ UNCHANGED <<restVars, call>>

\* main after the graph returns: it prints pending_output and leaves its
\* loop when the quiz is finished
PrintOutput ==
    /\ node = "print"
    /\ quiz' = [quiz EXCEPT !.pending_output = NoOutput]
    /\ node' = IF quiz.phase = "finished" THEN "exited" ELSE "input"
    /\ UNCHANGED <<restVars, call>>

\* ------------------------------------------------------- the evaluator
\* Texts are sequences of characters. The characters followed are a letter
\* in both cases, the blank and a punctuation mark that normalize_text
\* removes.
Chars == {"a", "A", " ", "!"}
Whitespace == {" "}
Punctuation == {"!"}

\* the texts of at most n characters
Texts(n) == UNION {[1..k -> Chars] : k \in 0..n}

\* str.lower, on the capital letters the texts followed contain
lower(text) ==
    [i \in 1..Len(text) |->
        CASE text[i] = "A" -> "a" [] text[i] = "S" -> "s" [] OTHER -> text[i]]

RECURSIVE lstrip(_)
lstrip(text) ==
    IF text # <<>> /\ Head(text) \in Whitespace THEN lstrip(Tail(text))
    ELSE text

RECURSIVE rstrip(_)
rstrip(text) ==
    IF text # <<>> /\ text[Len(text)] \in Whitespace
    THEN rstrip(SubSeq(text, 1, Len(text) - 1))
    ELSE text

\* str.strip
strip(text) == rstrip(lstrip(text))

\* re.sub(r'\s+', ' ', text)
RECURSIVE collapse_whitespace(_)
collapse_whitespace(text) ==
    IF text = <<>> THEN <<>>
    ELSE IF Head(text) \in Whitespace
    THEN <<" ">> \o collapse_whitespace(lstrip(text))
    ELSE <<Head(text)>> \o collapse_whitespace(Tail(text))

\* normalize_text: lower and strip, then the punctuation is removed, then
\* runs of whitespace are collapsed
normalize_text(text) ==
    collapse_whitespace(
        SelectSeq(strip(lower(text)), LAMBDA c : c \notin Punctuation))

\* a Question as the evaluator reads it: correct_answer is a string, or a
\* list of strings when is_list
EvalQuestion(is_list, correct_answer, alternative_answers) ==
    [is_list |-> is_list, correct_answer |-> correct_answer,
     alternative_answers |-> alternative_answers]

\* The judge's reply is a sequence of tokens: the pieces the four verdict
\* words are made of, in lower and in upper case, the blank and a token of
\* other text.
JudgeTokens == {"correct", "CORRECT", "in", "partially_", " ", "x"}
JudgeResponses(n) == UNION {[1..k -> JudgeTokens] : k \in 0..n}

lower_tokens(text) ==
    [i \in 1..Len(text) |-> IF text[i] = "CORRECT" THEN "correct" ELSE text[i]]

VerdictWord(result) ==
    CASE result = "correct" -> <<"correct">>
      [] result = "partially_correct" -> <<"partially_", "correct">>
      [] result = "partially_incorrect" -> <<"partially_", "in", "correct">>
      [] result = "incorrect" -> <<"in", "correct">>

\* word in text
Contains(text, word) ==
    \E i \in 1..(Len(text) - Len(word) + 1) :
        SubSeq(text, i, i + Len(word) - 1) = word

\* a judge that only looks for the verdict words inside the reply
llm_evaluate_by_substring(response) ==
    LET result_text == strip(lower_tokens(response))
    IN  IF Contains(result_text, VerdictWord("partially_correct"))
        THEN "partially_correct"
        ELSE IF Contains(result_text, VerdictWord("partially_incorrect"))
        THEN "partially_incorrect"
        ELSE IF Contains(result_text, VerdictWord("correct")) THEN "correct"
        ELSE "incorrect"

\* AnswerEvaluator._llm_evaluate once the judge has replied with response
llm_evaluate(response) ==
    LET result_text == strip(lower_tokens(response))
    IN  IF result_text = VerdictWord("correct") THEN "correct"
        ELSE IF result_text = VerdictWord("partially_correct")
        THEN "partially_correct"
        ELSE IF result_text = VerdictWord("partially_incorrect")
        THEN "partially_incorrect"
        ELSE IF result_text = VerdictWord("incorrect") THEN "incorrect"
        ELSE IF Contains(result_text, VerdictWord("partially_correct"))
        THEN "partially_correct"
        ELSE IF Contains(result_text, VerdictWord("partially_incorrect"))
        THEN "partially_incorrect"
        ELSE IF Contains(result_text, VerdictWord("correct")) THEN "correct"
        ELSE IF Contains(result_text, VerdictWord("incorrect")) THEN "incorrect"
        ELSE "incorrect"

\* an evaluation that takes only the empty answer for a skip
evaluate_unstripped(user_answer, question) ==
    LET correct_answer == IF question.is_list THEN question.correct_answer[1]
                          ELSE question.correct_answer
    IN  IF user_answer = <<>> THEN "skipped"
        ELSE IF normalize_text(user_answer) = normalize_text(correct_answer)
        THEN "correct"
        ELSE IF \E i \in 1..Len(question.alternative_answers) :
                   normalize_text(user_answer)
                       = normalize_text(question.alternative_answers[i])
        THEN "correct"
        ELSE "judge"

\* an evaluation that forgets the alternative answers
evaluate_without_alternatives(user_answer, question) ==
    LET correct_answer == IF question.is_list THEN question.correct_answer[1]
                          ELSE question.correct_answer
    IN  IF user_answer = <<>> \/ strip(user_answer) = <<>> THEN "skipped"
        ELSE IF normalize_text(user_answer) = normalize_text(correct_answer)
        THEN "correct"
        ELSE "judge"

\* AnswerEvaluator.evaluate up to the call of the judge: the result it
\* returns without it, or "judge"
evaluate(user_answer, question) ==
    LET correct_answer == IF question.is_list THEN question.correct_answer[1]
                          ELSE question.correct_answer
    IN  IF user_answer = <<>> \/ strip(user_answer) = <<>> THEN "skipped"
        ELSE IF normalize_text(user_answer) = normalize_text(correct_answer)
        THEN "correct"
        ELSE IF \E i \in 1..Len(question.alternative_answers) :
                   normalize_text(user_answer)
                       = normalize_text(question.alternative_answers[i])
        THEN "correct"
        ELSE "judge"

\* a call of evaluate: its arguments, where it stands, how often it has
\* called the judge, the judge's reply and the pair it returns
EvalCall(user_answer, question, pc, judge_calls, response, result, score) ==
    [fn |-> "evaluate", user_answer |-> user_answer, question |-> question,
     pc |-> pc, judge_calls |-> judge_calls, response |-> response,
     result |-> result, score |-> score]

\* evaluate runs to its return or to the await of the judge
Evaluate ==
    /\ call.fn = "evaluate"
    /\ call.pc = "start"
    /\ LET r == evaluate(call.user_answer, call.question)
       IN  call' = IF r = "judge"
                   THEN [call EXCEPT !.pc = "judging", !.judge_calls = @ + 1]
                   ELSE [call EXCEPT !.pc = "done", !.result = r,
                                     !.score = score_delta(r)]
    /\ UNCHANGED <<restVars, graphVars>>

\* the judge replies: _llm_evaluate parses the reply, evaluate maps the
\* verdict to its score
LlmEvaluateReturn(response) ==
    /\ call.fn = "evaluate"
    /\ call.pc = "judging"
    /\ LET r == llm_evaluate(response)
       IN  call' = [call EXCEPT !.pc = "done", !.response = response,
                                !.result = r, !.score = score_delta(r)]
    /\ UNCHANGED <<restVars, graphVars>>

\* the call of the judge raises (a timeout, a transport failure): evaluate
\* has no handler for it
LlmEvaluateRaises ==
    /\ call.fn = "evaluate"
    /\ call.pc = "judging"
    /\ call' = [call EXCEPT !.pc = "raised"]
    /\ UNCHANGED <<restVars, graphVars>>

\* ------------------------------------------------------------ the parser
\* difflib.SequenceMatcher (no junk; its heuristic for popular elements
\* starts at 200 elements of b, where an answer the length test lets through
\* is too short to be 0.7 similar). common_prefix: how far a from i and b
\* from j agree, below ahi and bhi.
RECURSIVE common_prefix(_, _, _, _, _, _)
common_prefix(a, i, ahi, b, j, bhi) ==
    IF i <= ahi /\ j <= bhi /\ a[i] = b[j]
    THEN 1 + common_prefix(a, i + 1, ahi, b, j + 1, bhi)
    ELSE 0

\* SequenceMatcher.find_longest_match on a[alo..ahi] and b[blo..bhi]: a
\* longest block, the one that starts earliest in a and then earliest in b
find_longest_match(a, alo, ahi, b, blo, bhi) ==
    LET size(i, j) == common_prefix(a, i, ahi, b, j, bhi)
        pairs == (alo..ahi) \X (blo..bhi)
        best == IF pairs = {} THEN 0
                ELSE CHOOSE k \in 0..(ahi - alo + 1) :
                        /\ \E ij \in pairs : size(ij[1], ij[2]) = k
                        /\ \A ij \in pairs : size(ij[1], ij[2]) <= k
    IN  IF best = 0 THEN <<alo, blo, 0>>
        ELSE LET i == CHOOSE i \in alo..ahi :
                         /\ \E j \in blo..bhi : size(i, j) = best
                         /\ \A h \in alo..(i - 1) :
                               \A j \in blo..bhi : size(h, j) < best
                 j == CHOOSE j \in blo..bhi :
                         /\ size(i, j) = best
                         /\ \A h \in blo..(j - 1) : size(i, h) < best
             IN  <<i, j, best>>

\* SequenceMatcher.get_matching_blocks: the number of matched elements
RECURSIVE matches(_, _, _, _, _, _)
matches(a, alo, ahi, b, blo, bhi) ==
    IF alo > ahi \/ blo > bhi THEN 0
    ELSE LET m == find_longest_match(a, alo, ahi, b, blo, bhi)
         IN  IF m[3] = 0 THEN 0
             ELSE m[3] + matches(a, alo, m[1] - 1, b, blo, m[2] - 1)
                       + matches(a, m[1] + m[3], ahi, b, m[2] + m[3], bhi)

\* SequenceMatcher(None, a, b).ratio() > 0.7, the ratio being 2.0 * M / T
ratio_exceeds(a, b) ==
    Len(a) + Len(b) > 0
    /\ 20 * matches(a, 1, Len(a), b, 1, Len(b))
          > MaxSimilarityTenths * (Len(a) + Len(b))

\* an intent as parse returns it: its type, the answer extracted for it
\* ("" when there is none) and which confirmation message it carries
ParsedIntent(intent_type, answer, confirmation) ==
    [intent_type |-> intent_type, answer |-> answer,
     confirmation |-> confirmation]

\* a validation that compares the answer with the question only
validate_similarity_only(intent, current_question) ==
    IF intent.intent_type # "answer" THEN intent
    ELSE IF /\ current_question # <<>>
            /\ Len(current_question) > MinQuestionChars
            /\ ratio_exceeds(lower(intent.answer), lower(current_question))
    THEN ParsedIntent("skip", <<>>, "invalid_answer")
    ELSE intent

\* parse, "Validate answer intents": one pass of the loop
validate_intent(intent, current_question) ==
    IF intent.intent_type # "answer" THEN intent
    ELSE IF Len(intent.answer) > MaxAnswerChars
    THEN ParsedIntent("skip", <<>>, "too_long")
    ELSE IF /\ current_question # <<>>
            /\ Len(current_question) > MinQuestionChars
            /\ ratio_exceeds(lower(intent.answer), lower(current_question))
    THEN ParsedIntent("skip", <<>>, "invalid_answer")
    ELSE intent

\* the words parse answers without the classifier
StartWords ==
    {<<"s", "t", "a", "r", "t">>, <<"b", "e", "g", "i", "n">>,
     <<"p", "l", "a", "y">>, <<"g", "o">>}
QuitWords ==
    {<<"q", "u", "i", "t">>, <<"e", "x", "i", "t">>, <<"s", "t", "o", "p">>,
     <<"e", "n", "d">>}
SkipWords ==
    {<<"s", "k", "i", "p">>, <<"p", "a", "s", "s">>, <<"n", "e", "x", "t">>}

\* parse up to the call of the classifier: the list it returns without it,
\* or that it asks the classifier
parse_fast(user_input, phase) ==
    LET user_input_lower == strip(lower(user_input))
        Return(intent) == [classify |-> FALSE, intents |-> <<intent>>]
    IN  IF user_input = <<>> \/ Len(strip(user_input)) < 2
        THEN Return(ParsedIntent("skip", <<>>, "no_input"))
        ELSE IF phase = "idle" /\ user_input_lower \in StartWords
        THEN Return(ParsedIntent("start", <<>>, "none"))
        ELSE IF user_input_lower \in QuitWords
        THEN Return(ParsedIntent("quit", <<>>, "none"))
        ELSE IF user_input_lower \in SkipWords
        THEN Return(ParsedIntent("skip", <<>>, "skipping"))
        ELSE [classify |-> TRUE, intents |-> <<>>]

\* The classifier's reply by what parse finds in it: "text" holds no pair of
\* braces, "malformed" is not JSON between its braces; the others are JSON
\* objects: "no_intents" has no member intents, "null_intents" has null for
\* it, "intents" has the list of intents given.
Content(kind, intents) == [kind |-> kind, intents |-> intents]

\* parse, "Parse JSON response": the intents before validation, or that the
\* loop over a null member raises
parse_response(content, user_input) ==
    CASE content.kind \in {"text", "malformed"} ->
            [raises |-> FALSE,
             intents |-> <<ParsedIntent("answer", user_input, "none")>>]
      [] content.kind = "no_intents" -> [raises |-> FALSE, intents |-> <<>>]
      [] content.kind = "null_intents" -> [raises |-> TRUE, intents |-> <<>>]
      [] OTHER -> [raises |-> FALSE, intents |-> content.intents]

\* a call of parse: its arguments, where it stands, the classifier's reply
\* and the list it returns
ParseCall(user_input, current_question, phase, pc, content, intents) ==
    [fn |-> "parse", user_input |-> user_input,
     current_question |-> current_question, phase |-> phase, pc |-> pc,
     content |-> content, intents |-> intents]

\* parse runs to its return or to the await of the classifier
Parse ==
    /\ call.fn = "parse"
    /\ call.pc = "start"
    /\ LET r == parse_fast(call.user_input, call.phase)
       IN  call' = IF r.classify THEN [call EXCEPT !.pc = "classifying"]
                   ELSE [call EXCEPT !.pc = "done", !.intents = r.intents]
    /\ UNCHANGED <<restVars, graphVars>>

\* the classifier replies: parse reads the reply and validates the intents
ClassifierReturn(content) ==
    /\ call.fn = "parse"
    /\ call.pc = "classifying"
    /\ LET r == parse_response(content, call.user_input)
       IN  call' = IF r.raises
                   THEN [call EXCEPT !.pc = "raised", !.content = content]
                   ELSE [call EXCEPT
                           !.pc = "done",
                           !.content = content,
                           !.intents =
                              [i \in 1..Len(r.intents) |->
                                  validate_intent(r.intents[i],
                                                  call.current_question)]]
    /\ UNCHANGED <<restVars, graphVars>>

\* the call of the classifier raises (a timeout, a transport failure): parse
\* has no handler for it
ClassifierRaises ==
    /\ call.fn = "parse"
    /\ call.pc = "classifying"
    /\ call' = [call EXCEPT !.pc = "raised"]
    /\ UNCHANGED <<restVars, graphVars>>

\* -------------------------------------------------------- the retriever
\* a call of get_next_question: its arguments, where it stands, the
\* difficulty it determined, how the store answered its searches, the
\* candidates it found, the recent questions it loaded and the question it
\* returns
RetrieveCall(session, n_candidates, client_excluded_ids, pc, question_difficulty, ups, candidates, selected) ==
    [fn |-> "get_next_question", session |-> session,
     n_candidates |-> n_candidates,
     client_excluded_ids |-> client_excluded_ids, pc |-> pc,
     question_difficulty |-> question_difficulty, ups |-> ups,
     candidates |-> candidates, recent_questions |-> {},
     selected |-> selected]

\* get_next_question up to the selection: the difficulty, the primary search
\* and the fallbacks; with no candidate it returns None
RetrieveCandidates(question_difficulty, ups) ==
    /\ call.fn = "get_next_question"
    /\ call.pc = "start"
    /\ question_difficulty \in determine_difficulty(call.session)
    /\ LET c == Candidates(call.session, call.n_candidates,
                           call.client_excluded_ids, question_difficulty, ups)
       IN  call' = [call EXCEPT
                      !.pc = IF c = {} THEN "done" ELSE "selecting",
                      !.question_difficulty = question_difficulty,
                      !.ups = ups,
                      !.candidates = c]
    /\ UNCHANGED <<restVars, graphVars>>

\* get_next_question, the selection among the candidates; up says whether
\* the store answers get_question for the recent questions
SelectQuestion(up) ==
    /\ call.fn = "get_next_question"
    /\ call.pc = "selecting"
    /\ LET r == select_with_semantic_diversity(call.candidates, call.session, up)
           recent == get_recent_questions(call.session, up)
       IN  IF r.raises
           THEN call' = [call EXCEPT !.pc = "raised",
                                     !.recent_questions = recent]
           ELSE \E selected \in r.choices :
                   call' = [call EXCEPT !.pc = "done",
                                        !.recent_questions = recent,
                                        !.selected = selected]
    /\ UNCHANGED <<restVars, graphVars>>

\* ------------------------------------------------------ the REST service
Init ==
    /\ collection \in {1..n : n \in 0..NumQuestions}
    /\ session_objs = <<>>
    /\ sessions = {}
    /\ now = 0
    /\ inflight = EmptyBag
    /\ resp = NoResp
    /\ quiz = get_initial_state(MaxQuestions)
    /\ node = "input"
    /\ call = NoCall

\* the requests on sessions and the text turns, which may overlap
Next ==
    \/ \E m \in 1..MaxQuestions, d \in CreateDifficulties, mode \in CreateModes,
          c \in CreateCategories : CreateSession(m, d, mode, c)
    \/ \E sid \in SessionIds : DeleteSession(sid)
    \/ \E sid \in SessionIds : StartQuiz(sid)
    \/ \E sid \in SessionIds, input \in InputKinds :
          BeginTurn(sid, NoParticipant, FALSE, input)
    \/ \E turn \in BagToSet(inflight), intents \in IntentLists(MaxIntents) :
          ParseReturn(turn, intents)
    \/ \E turn \in BagToSet(inflight) : ModelCallFails(turn)
    \/ \E turn \in BagToSet(inflight), verdict \in Verdicts,
          intents \in IntentLists(MaxIntents - 1) :
          JudgeReturn(turn, verdict, intents)

Spec == Init /\ [][Next]_vars

\* the same with voice turns in the place of the text turns
VoiceNext ==
    \/ \E m \in 1..MaxQuestions, d \in CreateDifficulties, mode \in CreateModes,
          c \in CreateCategories : CreateSession(m, d, mode, c)
    \/ \E sid \in SessionIds : DeleteSession(sid)
    \/ \E sid \in SessionIds : StartQuiz(sid)
    \/ \E sid \in SessionIds : BeginTurn(sid, NoParticipant, TRUE, "other")
    \/ \E turn \in BagToSet(inflight), outcome \in {"speech", "empty", "error"},
          input \in InputKinds : TranscribeReturn(turn, outcome, input)
    \/ \E turn \in BagToSet(inflight), intents \in IntentLists(MaxIntents) :
          ParseReturn(turn, intents)
    \/ \E turn \in BagToSet(inflight) : ModelCallFails(turn)
    \/ \E turn \in BagToSet(inflight), verdict \in Verdicts,
          intents \in IntentLists(MaxIntents - 1) :
          JudgeReturn(turn, verdict, intents)

VoiceSpec == Init /\ [][VoiceNext]_vars

\* the store under the clock: sessions expire while turns that the parser
\* answers without the language model run one at a time
StoreNext ==
    \/ \E m \in 1..MaxQuestions, d \in CreateDifficulties, mode \in CreateModes,
          c \in CreateCategories : CreateSession(m, d, mode, c)
    \/ \E sid \in SessionIds : ReadSession(sid)
    \/ \E sid \in SessionIds : DeleteSession(sid)
    \/ Tick
    \/ CleanupExpired
    \/ \E sid \in SessionIds : StartQuiz(sid)
    \/ \E sid \in SessionIds, p \in ParticipantIds, input \in {"skip", "quit"} :
          BeginTurn(sid, p, FALSE, input)

StoreSpec == Init /\ [][StoreNext]_vars

\* deletion and expiry racing the text turns: single-intent turns under the
\* clock
RaceNext ==
    \/ \E m \in 1..MaxQuestions, d \in CreateDifficulties, mode \in CreateModes,
          c \in CreateCategories : CreateSession(m, d, mode, c)
    \/ \E sid \in SessionIds : ReadSession(sid)
    \/ \E sid \in SessionIds : DeleteSession(sid)
    \/ Tick
    \/ CleanupExpired
    \/ \E sid \in SessionIds : StartQuiz(sid)
    \/ \E sid \in SessionIds, input \in InputKinds :
          BeginTurn(sid, NoParticipant, FALSE, input)
    \/ \E turn \in BagToSet(inflight), intents \in IntentLists(1) :
          ParseReturn(turn, intents)
    \/ \E turn \in BagToSet(inflight) : ModelCallFails(turn)
    \/ \E turn \in BagToSet(inflight), verdict \in Verdicts :
          JudgeReturn(turn, verdict, <<>>)

RaceSpec == Init /\ [][RaceNext]_vars

\* --------------------------------------------------- the terminal quiz
\* get_initial_state asks ten questions; the quizzes followed here are
\* shorter
GraphInit ==
    /\ collection = {}
    /\ session_objs = <<>>
    /\ sessions = {}
    /\ now = 0
    /\ inflight = EmptyBag
    /\ resp = NoResp
    /\ quiz \in {get_initial_state(m) : m \in 1..MaxQuestions}
    /\ node = "input"
    /\ call = NoCall

GraphNext ==
    \/ \E input \in GraphInputs, intents \in GraphIntentLists(MaxIntents) :
          ProcessInput(input, intents)
    \/ \E question \in 1..NumGenerated : GenerateQuestion(question)
    \/ \E verdict \in GraphVerdicts : EvaluateAnswer(verdict)
    \/ FindSource
    \/ ProvideFeedback
    \/ PrintOutput

GraphSpec == GraphInit /\ [][GraphNext]_vars

\* ------------------------------------------------- the evaluator alone
\* the variables of the service and of the terminal quiz while one call is
\* followed on its own
Idle ==
    /\ collection = {}
    /\ session_objs = <<>>
    /\ sessions = {}
    /\ now = 0
    /\ inflight = EmptyBag
    /\ resp = NoResp
    /\ quiz = get_initial_state(MaxQuestions)
    /\ node = "input"

\* correct_answer as a string, or as a list of one or two strings
EvalQuestions ==
    LET canon == Texts(MaxCanonicalLen)
        alts == UNION {[1..k -> canon] : k \in 0..MaxAlternatives}
    IN  {EvalQuestion(FALSE, c, a) : c \in canon, a \in alts}
        \cup {EvalQuestion(TRUE, l, a) :
                 l \in [1..1 -> canon] \cup [1..2 -> canon], a \in alts}

\* evaluate called with any answer on any question; the judge replies with
\* one token
EvalInit ==
    /\ Idle
    /\ call \in {EvalCall(x, q, "start", 0, <<>>, "none", 0) :
                    x \in Texts(MaxAnswerLen), q \in EvalQuestions}

EvalNext ==
    \/ Evaluate
    \/ \E response \in JudgeResponses(1) : LlmEvaluateReturn(response)
    \/ LlmEvaluateRaises

EvalSpec == EvalInit /\ [][EvalNext]_vars

\* evaluate called on one question, with any reply of the judge
JudgeInit ==
    /\ Idle
    /\ call \in {EvalCall(x, EvalQuestion(FALSE, <<"a", "a">>, <<>>),
                          "start", 0, <<>>, "none", 0) : x \in Texts(1)}

JudgeNext ==
    \/ Evaluate
    \/ \E response \in JudgeResponses(MaxResponseLen) :
          LlmEvaluateReturn(response)
    \/ LlmEvaluateRaises

JudgeSpec == JudgeInit /\ [][JudgeNext]_vars

\* --------------------------------------------------- the parser alone
\* a text of n characters
Rep(c, n) == [i \in 1..n |-> c]

\* the current question: none, or a text as long as the longest question
\* the validation does not look at, one character longer, or one character
\* longer than the longest answer let through
ParseQuestions ==
    {[i \in 1..n |-> IF i % 2 = 1 THEN "a" ELSE "b"] :
        n \in {0, MinQuestionChars, MinQuestionChars + 1, MaxAnswerChars + 1}}

\* the answers the classifier may extract beside a question: the question
\* itself, in capitals too, its beginnings, and other texts of the lengths
\* around the longest answer let through
ParseAnswers(q) ==
    {q, [i \in 1..Len(q) |-> IF q[i] = "a" THEN "A" ELSE q[i]]}
    \cup {SubSeq(q, 1, k) :
             k \in {j \in 0..Len(q) : j <= MinQuestionChars + 1}}
    \cup {Rep("x", n) :
             n \in {1, MaxAnswerChars, MaxAnswerChars + 1, MaxAnswerChars + 50}}

\* what the user may type: nothing, too little, words parse knows, other
\* text, long text, the question
ParseInputs(q) ==
    {<<>>, <<" ">>, <<" ", "a">>, <<"a", "b">>, <<"g", "o">>,
     <<"S", "k", "i", "p", " ">>, <<"e", "n", "d">>, q,
     Rep("x", MaxAnswerChars), Rep("x", MaxAnswerChars + 1)}

\* the replies of the classifier beside a question
ParseContents(q) ==
    LET intents == {ParsedIntent("answer", a, "none") : a \in ParseAnswers(q)}
                   \cup {ParsedIntent("skip", <<>>, "none"),
                         ParsedIntent("unclear", <<>>, "none")}
    IN  {Content(k, <<>>) :
            k \in {"text", "malformed", "no_intents", "null_intents"}}
        \cup {Content("intents", l) :
                 l \in UNION {[1..k -> intents] : k \in 0..MaxIntents}}

NoContent == Content("none", <<>>)

ParseInit ==
    /\ Idle
    /\ call \in UNION {{ParseCall(u, q, phase, "start", NoContent, <<>>) :
                             u \in ParseInputs(q), phase \in {"idle", "asking"}} :
                          q \in ParseQuestions}

ParseNext ==
    \/ Parse
    \/ \E content \in ParseContents(call.current_question) :
          ClassifierReturn(content)
    \/ ClassifierRaises

ParseSpec == ParseInit /\ [][ParseNext]_vars

\* ------------------------------------------------ the retriever alone
\* how the store answers the six searches of a call: all of them, none, or
\* all from the k-th on, ranking by id upwards or downwards
RetrieveAnswers ==
    {[i \in 1..6 |-> StoreAnswer(i >= k, o)] : k \in {1, 5, 6, 7}, o \in {1, -1}}

\* the sessions get_next_question is called with: any difficulty, with and
\* without preferred categories, with up to four questions asked
RetrieveSessions ==
    {[NewSession(1, MaxQuestions, d, "single", "none") EXCEPT
        !.phase = "asking",
        !.preferred_categories = c,
        !.asked_question_ids = a] :
        d \in SeqToSet(Difficulties) \cup {"random"},
        c \in {{}, {"adults"}, {"general"}},
        a \in {<<>>, <<2>>, <<2, 8>>, <<3, 2, 8, 11>>}}

RetrieveInit ==
    /\ collection \in {1..n : n \in {0, NumQuestions, NumStored}}
    /\ session_objs = <<>>
    /\ sessions = {}
    /\ now = 0
    /\ inflight = EmptyBag
    /\ resp = NoResp
    /\ quiz = get_initial_state(MaxQuestions)
    /\ node = "input"
    /\ call \in {RetrieveCall(session, n, e, "start", "none",
                              [i \in 1..6 |-> StoreAnswer(TRUE, 1)], {},
                              NoQuestion) :
                    session \in RetrieveSessions, n \in {1, NCandidates},
                    e \in {{}, {11}, {2, 8, 11}}}

RetrieveNext ==
    \/ \E d \in SeqToSet(Difficulties), ups \in RetrieveAnswers :
          RetrieveCandidates(d, ups)
    \/ \E up \in BOOLEAN : SelectQuestion(up)

RetrieveSpec == RetrieveInit /\ [][RetrieveNext]_vars

\* ------------------------------------------- the session manager alone
\* A call of a SessionManager method: its arguments, what it returned (as a
\* truth value: a session or a participant is true, None is false) and, for
\* the sweep, its list of expired ids.
ManagerCall(fn, session_id, participant_id, result, expired) ==
    [fn |-> fn, session_id |-> session_id, participant_id |-> participant_id,
     result |-> result, expired |-> expired]

\* the ids the methods are called with: those of the sessions and one that
\* no session ever had
ManagedIds == 1..(MaxManaged + 1)

\* SessionManager.create_session
ManagerCreate(mode) ==
    /\ Len(session_objs) < MaxManaged
    /\ LET sid == Len(session_objs) + 1
       IN  /\ session_objs' = Append(session_objs,
                  NewSession(sid, MaxQuestions, "medium", mode, "none"))
           /\ sessions' = sessions \cup {sid}
           /\ call' = ManagerCall("create_session", sid, NoParticipant, TRUE, {})
    /\ UNCHANGED <<collection, now, inflight, resp, quiz, node>>

\* SessionManager.get_session
ManagerGet(sid) ==
    /\ sessions' = get_session(sessions, sid)
    /\ call' = ManagerCall("get_session", sid, NoParticipant, Found(sid), {})
    /\ UNCHANGED <<collection, session_objs, now, inflight, resp, quiz, node>>

\* SessionManager.update_session, called with the object of a session that
\* was created at some time
ManagerUpdate(sid) ==
    /\ Created(sid)
    /\ sessions' = update_session(sessions, sid)
    /\ call' = ManagerCall("update_session", sid, NoParticipant,
                           sid \in sessions, {})
    /\ UNCHANGED <<collection, session_objs, now, inflight, resp, quiz, node>>

\* SessionManager.delete_session
ManagerDelete(sid) ==
    /\ sessions' = delete_session(sessions, sid)
    /\ call' = ManagerCall("delete_session", sid, NoParticipant,
                           sid \in sessions, {})
    /\ UNCHANGED <<collection, session_objs, now, inflight, resp, quiz, node>>

\* SessionManager.extend_session
ManagerExtend(sid, minutes) ==
    /\ LET keys == get_session(sessions, sid)
       IN  IF ~Found(sid)
           THEN /\ sessions' = keys
                /\ call' = ManagerCall("extend_session", sid, NoParticipant,
                                       FALSE, {})
                /\ UNCHANGED session_objs
           ELSE /\ session_objs' = [session_objs EXCEPT
                                      ![sid].expires_at = now + minutes]
                /\ sessions' = update_session(keys, sid)
                /\ call' = ManagerCall("extend_session", sid, NoParticipant,
                                       sid \in keys, {})
    /\ UNCHANGED <<collection, now, inflight, resp, quiz, node>>

\* SessionManager.add_participant; the new participant's id is the first one
\* that no participant of the session has
ManagerAddParticipant(sid, participant_id) ==
    /\ LET keys == get_session(sessions, sid)
       IN  IF ~Found(sid)
           THEN /\ sessions' = keys
                /\ call' = ManagerCall("add_participant", sid, participant_id,
                                       FALSE, {})
                /\ UNCHANGED session_objs
           ELSE LET participants == session_objs[sid].participants
                IN  /\ Len(participants) < MaxParticipants
                    /\ LET free == {p \in 1..MaxParticipants :
                                       \A i \in 1..Len(participants) :
                                          participants[i].participant_id # p}
                       IN  /\ participant_id \in free
                           /\ \A p \in free : participant_id <= p
                    /\ session_objs' = [session_objs EXCEPT
                          ![sid].participants =
                              Append(@, Participant(participant_id,
                                                    Len(participants) = 0))]
                    /\ sessions' = update_session(keys, sid)
                    /\ call' = ManagerCall("add_participant", sid,
                                           participant_id, TRUE, {})
    /\ UNCHANGED <<collection, now, inflight, resp, quiz, node>>

\* a removal that leaves the remaining participants as they are
remove_without_new_host(participants, participant_id) ==
    [participants |-> SelectSeq(participants,
                          LAMBDA p : p.participant_id # participant_id),
     result |-> TRUE]

\* SessionManager.remove_participant, from the list comprehension on: the
\* list it leaves and what it returns
remove_participant(participants, participant_id) ==
    LET remaining == SelectSeq(participants,
                         LAMBDA p : p.participant_id # participant_id)
        has_host == \E i \in 1..Len(remaining) : remaining[i].is_host
    IN  [participants |->
             IF remaining # <<>> /\ ~has_host
             THEN [remaining EXCEPT ![1].is_host = TRUE]
             ELSE remaining,
         result |-> TRUE]

\* SessionManager.remove_participant
ManagerRemoveParticipant(sid, participant_id) ==
    /\ LET keys == get_session(sessions, sid)
       IN  IF ~Found(sid)
           THEN /\ sessions' = keys
                /\ call' = ManagerCall("remove_participant", sid,
                                       participant_id, FALSE, {})
                /\ UNCHANGED session_objs
           ELSE LET r == remove_participant(session_objs[sid].participants,
                                            participant_id)
                IN  /\ session_objs' = [session_objs EXCEPT
                                          ![sid].participants = r.participants]
                    /\ sessions' = update_session(keys, sid)
                    /\ call' = ManagerCall("remove_participant", sid,
                                           participant_id, r.result, {})
    /\ UNCHANGED <<collection, now, inflight, resp, quiz, node>>

\* SessionManager._cleanup_expired, run by _cleanup_loop at any time
ManagerCleanup ==
    /\ sessions' = cleanup_expired(sessions)
    /\ call' = ManagerCall("cleanup_expired", 0, NoParticipant, TRUE,
                           sessions \ cleanup_expired(sessions))
    /\ UNCHANGED <<collection, session_objs, now, inflight, resp, quiz, node>>

ManagerInit ==
    /\ Idle
    /\ call = NoCall

ManagerNext ==
    \/ \E mode \in {"single", "multiplayer"} : ManagerCreate(mode)
    \/ \E sid \in ManagedIds : ManagerGet(sid)
    \/ \E sid \in ManagedIds : ManagerUpdate(sid)
    \/ \E sid \in ManagedIds : ManagerDelete(sid)
    \/ \E sid \in ManagedIds : ManagerExtend(sid, TtlMinutes)
    \/ \E sid \in ManagedIds, p \in 1..MaxParticipants :
          ManagerAddParticipant(sid, p)
    \/ \E sid \in ManagedIds, p \in 1..(MaxParticipants + 1) :
          ManagerRemoveParticipant(sid, p)
    \/ ManagerCleanup
    \/ Tick

ManagerSpec == ManagerInit /\ [][ManagerNext]_vars

\* ------------------------------------------------ turns of preferences
\* the topics a preference_change names: one to avoid, the same one to
\* prefer, another to avoid, and none
PreferenceTopics ==
    {<<"-", "geography">>, <<"geography">>, <<"-", "history">>, <<>>}

PreferenceIntentLists ==
    UNION {[1..k -> {Intent("preference_change", t) : t \in PreferenceTopics}] :
              k \in 0..MaxIntents}

\* the preference_change intents of the terminal quiz: topics to avoid and
\* topics to prefer
GraphPreferenceIntentLists ==
    UNION {[1..k -> {GraphIntent("preference_change", d, FALSE) :
                        d \in {"avoid", "prefer"}}] : k \in 0..MaxIntents}

\* text turns of the service and inputs of the terminal quiz that carry
\* nothing but preference changes
PreferenceNext ==
    \/ \E m \in 1..MaxQuestions, d \in CreateDifficulties, mode \in CreateModes,
          c \in CreateCategories : CreateSession(m, d, mode, c)
    \/ \E sid \in SessionIds : StartQuiz(sid)
    \/ \E sid \in SessionIds : BeginTurn(sid, NoParticipant, FALSE, "other")
    \/ \E turn \in BagToSet(inflight), intents \in PreferenceIntentLists :
          ParseReturn(turn, intents)
    \/ \E intents \in GraphPreferenceIntentLists : ProcessInput("other", intents)
    \/ PrintOutput

PreferenceSpec == Init /\ [][PreferenceNext]_vars

\* ------------------------------------------------- turns of difficulty
\* what the classifier extracts as the difficulty of a difficulty_change: a
\* direction (what its prompt asks for), a step of the scale, or nothing
ExtractedDifficulties == {"harder", "easier", "easy", "hard", "None"}

DifficultyIntentLists ==
    UNION {[1..k -> {Intent("difficulty_change", <<d>>) :
                        d \in ExtractedDifficulties}] : k \in 0..MaxIntents}

\* the preference_change intents of the terminal quiz that carry a direction
GraphDifficultyIntentLists ==
    UNION {[1..k -> {GraphIntent("preference_change", d, FALSE) :
                        d \in {"harder", "easier"}}] : k \in 0..MaxIntents}

\* text turns of the service, on sessions of a fixed or a random difficulty,
\* and inputs of the terminal quiz that carry nothing but difficulty changes
DifficultyNext ==
    \/ \E m \in 1..MaxQuestions, d \in {"medium", "random"}, mode \in CreateModes,
          c \in CreateCategories : CreateSession(m, d, mode, c)
    \/ \E sid \in SessionIds : StartQuiz(sid)
    \/ \E sid \in SessionIds : BeginTurn(sid, NoParticipant, FALSE, "other")
    \/ \E turn \in BagToSet(inflight), intents \in DifficultyIntentLists :
          ParseReturn(turn, intents)
    \/ \E intents \in GraphDifficultyIntentLists : ProcessInput("other", intents)
    \/ PrintOutput

DifficultySpec == Init /\ [][DifficultyNext]_vars

\* ------------------------------------------------ the question generator
\* AdvancedQuestionGenerator.generate_questions with Best-of-N. A candidate
\* is its place in the order of generation; scores[i] is the overall_score
\* the critique gave the i-th candidate, in points of ten.
Scores == {3, 5, 6, 8, 9}
Floors == {5, 7}

Reverse(seq) == [i \in 1..Len(seq) |-> seq[Len(seq) + 1 - i]]

\* one step of a stable sort: x goes behind every element that is not
\* greater than it
RECURSIVE insort(_, _, _)
insort(sorted, x, scores) ==
    IF sorted = <<>> THEN <<x>>
    ELSE IF scores[Head(sorted)] <= scores[x]
    THEN <<Head(sorted)>> \o insort(Tail(sorted), x, scores)
    ELSE <<x>> \o sorted

\* list.sort(key=score): ascending, and stable
RECURSIVE stable_sort(_, _)
stable_sort(seq, scores) ==
    IF seq = <<>> THEN <<>>
    ELSE insort(stable_sort(SubSeq(seq, 1, Len(seq) - 1), scores),
                seq[Len(seq)], scores)

\* a descending sort that sorts upwards and turns the result round
sort_then_reverse(seq, scores) == Reverse(stable_sort(seq, scores))

\* list.sort(key=score, reverse=True): the list is turned round, sorted
\* upwards and turned round again, which keeps equal scores in their order
sort_descending(seq, scores) == Reverse(stable_sort(Reverse(seq), scores))

\* generate_questions, stages 3 and 4: the selection it returns and the
\* count it prints
select_best(scores, count, min_quality_score) ==
    LET questions_with_scores ==
            sort_descending([i \in 1..Len(scores) |-> i], scores)
        top == SubSeq(questions_with_scores, 1,
                      IF count < Len(scores) THEN count ELSE Len(scores))
    IN  [selected_questions |-> top,
         low_quality_count |->
             Cardinality({i \in 1..Len(top) :
                             scores[top[i]] < min_quality_score})]

\* generate_questions_advanced: the statistics of its response. The scores
\* are read with get_ai_score, which looks for "ai_score" in the metadata
\* where the critique wrote "overall_score", so that none is found.
advanced_stats(count, n_multiplier, questions) ==
    [generated_count |-> count * n_multiplier,
     selected_count |-> Len(questions),
     avg_ai_score |-> "None",
     min_ai_score |-> "None",
     max_ai_score |-> "None"]

NoStats == [generated_count |-> 0]

GenerateCall(scores, count, min_quality_score, pc, selected_questions, low_quality_count, printed, stats) ==
    [fn |-> "generate_questions", scores |-> scores, count |-> count,
     min_quality_score |-> min_quality_score, pc |-> pc,
     selected_questions |-> selected_questions,
     low_quality_count |-> low_quality_count, printed |-> printed,
     stats |-> stats]

\* generate_questions from "Stage 3" to its return
SelectBest ==
    /\ call.fn = "generate_questions"
    /\ call.pc = "critiqued"
    /\ LET r == select_best(call.scores, call.count, call.min_quality_score)
       IN  call' = [call EXCEPT
                      !.pc = "selected",
                      !.selected_questions = r.selected_questions,
                      !.low_quality_count = r.low_quality_count,
                      !.printed = r.low_quality_count > 0]
    /\ UNCHANGED <<restVars, graphVars>>

\* generate_questions_advanced after generate_questions returned
RespondAdvanced(n_multiplier) ==
    /\ call.fn = "generate_questions"
    /\ call.pc = "selected"
    /\ call' = [call EXCEPT
                  !.pc = "responded",
                  !.stats = advanced_stats(call.count, n_multiplier,
                                           call.selected_questions)]
    /\ UNCHANGED <<restVars, graphVars>>

\* every list of up to MaxCandidates scored candidates, every count asked for
GenerateInit ==
    /\ Idle
    /\ call \in {GenerateCall(scores, count, floor, "critiqued", <<>>, 0,
                              FALSE, NoStats) :
                    scores \in UNION {[1..n -> Scores] : n \in 0..MaxCandidates},
                    count \in 1..MaxWant, floor \in Floors}

GenerateNext ==
    \/ SelectBest
    \/ \E n_multiplier \in {1, 3} : RespondAdvanced(n_multiplier)

GenerateSpec == GenerateInit /\ [][GenerateNext]_vars

\* ------------------------------------- turns on a store that answers
\* the candidates of a call in which the store answers every search
answered_candidates(session) ==
    UNION {Candidates(session, NCandidates, {}, d,
                      [i \in 1..6 |-> StoreAnswer(TRUE, 1)]) :
              d \in determine_difficulty(session)}

\* The step is one of a service whose store answers every call. A question
\* appended to a session's history was selected from the candidates the
\* store returned with the asked questions loaded (which get_question finds,
\* for no question leaves the collection), and a session ended short of
\* max_questions had no candidate left.
StoreAnswersStep ==
    \A sid \in 1..Len(session_objs) :
       LET before == session_objs[sid]
           after == session_objs'[sid]
           given == [after EXCEPT !.asked_question_ids = before.asked_question_ids]
           r == select_with_semantic_diversity(answered_candidates(given),
                                               given, TRUE)
       IN  /\ Len(after.asked_question_ids) = Len(before.asked_question_ids) + 1
              => /\ ~r.raises
                 /\ after.current_question_id \in r.choices
           /\ /\ after.phase = "finished"
              /\ before.phase # "finished"
              /\ Len(after.asked_question_ids) < after.max_questions
              => answered_candidates(given) = {}
           /\ /\ after.phase = "asking"
              /\ before.phase = "idle"
              /\ after.asked_question_ids = <<>>
              => answered_candidates(given) = {}

\* a full collection, which holds a question for every turn of the sessions
LiveInit ==
    /\ Init
    /\ collection = QuestionIds

\* sessions of every difficulty and the text turns on them
LiveNext ==
    \/ \E m \in 1..MaxQuestions, d \in SeqToSet(Difficulties) \cup {"random"},
          mode \in CreateModes, c \in CreateCategories :
          CreateSession(m, d, mode, c) /\ StoreAnswersStep
    \/ \E sid \in SessionIds : StartQuiz(sid) /\ StoreAnswersStep
    \/ \E sid \in SessionIds, input \in InputKinds :
          BeginTurn(sid, NoParticipant, FALSE, input) /\ StoreAnswersStep
    \/ \E turn \in BagToSet(inflight), intents \in IntentLists(1) :
          ParseReturn(turn, intents) /\ StoreAnswersStep
    \/ \E turn \in BagToSet(inflight) :
          ModelCallFails(turn) /\ StoreAnswersStep
    \/ \E turn \in BagToSet(inflight), verdict \in Verdicts :
          JudgeReturn(turn, verdict, <<>>) /\ StoreAnswersStep

\* a turn that skips the question
SkipTurn ==
    /\ \E sid \in SessionIds : BeginTurn(sid, NoParticipant, FALSE, "skip")
    /\ StoreAnswersStep

\* skip turns keep being submitted and the calls of the language model return
LiveSpec ==
    /\ LiveInit
    /\ [][LiveNext]_vars
    /\ WF_vars(SkipTurn)
    /\ WF_vars(\E turn \in BagToSet(inflight) : ModelCallFails(turn))

\* ================================================================ claims
NoDuplicates(seq) ==
    \A i, j \in 1..Len(seq) : i # j => seq[i] # seq[j]

FinishedIsTerminal ==
    [][\A sid \in 1..Len(session_objs) :
          session_objs[sid].phase = "finished" =>
             /\ session_objs'[sid].phase = "finished"
             /\ session_objs'[sid].asked_question_ids
                   = session_objs[sid].asked_question_ids
             /\ session_objs'[sid].current_question_id
                   = session_objs[sid].current_question_id
             /\ session_objs'[sid].participants
                   = session_objs[sid].participants]_vars

\* a request reached a finished session and was rejected
FinishedRejectsTurn ==
    /\ resp.status = 400
    /\ resp.phase = "finished"

AdvancingIntents == {"answer", "skip"}

NoAnswerNoSkip(intents) ==
    \A i \in 1..Len(intents) : intents[i].intent_type \notin AdvancingIntents

\* C4: a turn whose intent list holds no answer and no skip leaves the
\* session's phase, current_question_id and asked_question_ids as they were.
BareTurnDoesNotAdvance ==
    [][\A turn \in BagToSet(inflight), intents \in IntentLists(MaxIntents) :
          (ParseReturn(turn, intents) /\ NoAnswerNoSkip(intents)) =>
             /\ session_objs'[turn.sid].phase = session_objs[turn.sid].phase
             /\ session_objs'[turn.sid].current_question_id
                   = session_objs[turn.sid].current_question_id
             /\ session_objs'[turn.sid].asked_question_ids
                   = session_objs[turn.sid].asked_question_ids]_vars

TurnsOf(sid) == {turn \in BagToSet(inflight) : turn.sid = sid}

\* C5: for each session at most one turn is between its read of the session
\* and its return.
OneTurnPerSession ==
    \A sid \in SessionIds :
        BagCardinality([turn \in TurnsOf(sid) |-> CopiesIn(turn, inflight)]) <= 1

NoQuestionMessages == {"database_empty", "no_match", "no_more_questions"}

\* C7: a request for which the retriever yields no question returns without
\* an error and leaves the session finished.
NoQuestionFinishesQuietly ==
    resp.message \in NoQuestionMessages =>
        /\ resp.status = 200
        /\ resp.phase = "finished"

CauseMessages == {"database_empty", "no_match"}

\* C8: every response to a request for which the retriever yields no
\* question names the cause: the store is empty, or nothing in it matches.
NoQuestionNamesCause ==
    resp.message \in NoQuestionMessages => resp.message \in CauseMessages

\* C9: when a turn's list holds an answer and a skip, in either order, the
\* result the turn reports is the result of the answer.
AnswerBeatsSkip ==
    [][\A turn \in BagToSet(inflight), intents \in IntentLists(MaxIntents) :
          \A i, j \in 1..Len(intents) :
             (/\ ParseReturn(turn, intents)
              /\ BagCardinality(inflight') < BagCardinality(inflight)
              /\ intents[i].intent_type = "answer"
              /\ ~NeedsJudge(intents[i])
              /\ intents[j].intent_type = "skip"
              /\ \A k \in 1..Len(intents) :
                    intents[k].intent_type = "answer" => k = i)
             => resp'.evaluation = evaluate_fast(intents[i].data)]_vars

\* the phases of the state machine; looking up the source and giving the
\* feedback are steps of the evaluation
MachinePhase(phase) ==
    IF phase \in {"finding_source", "providing_feedback"} THEN "evaluating"
    ELSE phase

PhaseEdges ==
    {<<"idle", "asking">>, <<"asking", "awaiting_answer">>,
     <<"awaiting_answer", "evaluating">>, <<"evaluating", "asking">>,
     <<"evaluating", "finished">>}

\* C2: every change of the quiz's phase follows an edge of idle -> asking ->
\* awaiting_answer -> evaluating -> (asking | finished); evaluating is entered
\* only from awaiting_answer, never from idle. (Ending the quiz on the user's
\* quit, which process_input does from any phase, is not held against it.)
PhaseFollowsEdges ==
    [][MachinePhase(quiz'.phase) # MachinePhase(quiz.phase) =>
          \/ <<MachinePhase(quiz.phase), MachinePhase(quiz'.phase)>> \in PhaseEdges
          \/ node = "input" /\ quiz'.phase = "finished"]_vars

\* C10: with max_questions = 2, the first question answered correctly and
\* the second skipped, the quiz ends with the score 1.0 and the final report
\* 1.0/1: the skipped question is left out of the denominator once.
CorrectThenSkipReportsOneOfOne ==
    (/\ node = "print"
     /\ quiz.phase = "finished"
     /\ quiz.max_questions = 2
     /\ quiz.question_number = 2
     /\ quiz.score = 4
     /\ SeqToSet(quiz.skipped_question_numbers) = {2}
     /\ quiz.pending_output.kind \in {"complete", "complete_none"})
    => quiz.pending_output = Output("complete", 4, 1)

\* the answer matches the canonical answer (the first one of a list) or an
\* alternative answer once both are normalized
NormalizedMatch(user_answer, question) ==
    \/ normalize_text(user_answer) =
          normalize_text(IF question.is_list THEN question.correct_answer[1]
                         ELSE question.correct_answer)
    \/ \E i \in 1..Len(question.alternative_answers) :
          normalize_text(user_answer)
              = normalize_text(question.alternative_answers[i])

ReturnsCorrectUnjudged ==
    /\ call.pc = "done"
    /\ call.result = "correct"
    /\ call.score = 4
    /\ call.judge_calls = 0

Blank(text) == \A i \in 1..Len(text) : text[i] \in Whitespace

\* C11 as stated: for every answer x and question q such that x, normalized,
\* equals q's normalized canonical answer or a normalized alternative answer,
\* evaluate returns (correct, 1.0) and does not call the judge.
EveryMatchIsCorrect ==
    (/\ call.fn = "evaluate"
     /\ call.pc # "start"
     /\ NormalizedMatch(call.user_answer, call.question))
    => ReturnsCorrectUnjudged

\* C11, amended: the same for every answer that is not empty and not all
\* whitespace; an empty or all-whitespace answer is skipped with 0.0, match
\* or not, and the judge is not called for it either.
NonBlankMatchIsCorrect ==
    (/\ call.fn = "evaluate"
     /\ call.pc # "start"
     /\ NormalizedMatch(call.user_answer, call.question))
    => IF Blank(call.user_answer)
       THEN /\ call.pc = "done"
            /\ call.result = "skipped"
            /\ call.score = 0
            /\ call.judge_calls = 0
       ELSE ReturnsCorrectUnjudged

\* an answer that differs from every answer of the question as written and
\* matches an alternative answer once normalized
MatchedAlternativeByNormalizing ==
    /\ call.fn = "evaluate"
    /\ ReturnsCorrectUnjudged
    /\ ~call.question.is_list
    /\ call.user_answer # call.question.correct_answer
    /\ normalize_text(call.user_answer)
          # normalize_text(call.question.correct_answer)
    /\ \A i \in 1..Len(call.question.alternative_answers) :
          call.user_answer # call.question.alternative_answers[i]

JudgeWords ==
    {"correct", "partially_correct", "partially_incorrect", "incorrect"}

StatedDelta(result) ==
    CASE result = "correct" -> 4
      [] result = "partially_correct" -> 2
      [] result = "partially_incorrect" -> 1
      [] result = "incorrect" -> 0

\* C12: when the judge's reply is exactly one of the four verdict words,
\* evaluate returns that verdict with its score (1.0, 0.5, 0.25, 0.0); when
\* no verdict word occurs in the reply it returns (incorrect, 0.0); whatever
\* the reply, evaluate returns one of the four verdicts with its score.
JudgeReplyDecides ==
    (call.fn = "evaluate" /\ call.judge_calls = 1 /\ call.pc = "done") =>
        LET text == strip(lower_tokens(call.response))
        IN  /\ \A v \in JudgeWords :
                  text = VerdictWord(v) =>
                     call.result = v /\ call.score = StatedDelta(v)
            /\ (\A v \in JudgeWords : ~Contains(text, VerdictWord(v))) =>
                  call.result = "incorrect" /\ call.score = 0
            /\ call.result \in JudgeWords
            /\ call.score = StatedDelta(call.result)

\* the judge replied with text that holds no verdict and the answer was
\* scored incorrect
UnparsedReplyScoredIncorrect ==
    /\ call.fn = "evaluate"
    /\ call.pc = "done"
    /\ call.judge_calls = 1
    /\ strip(call.response) # <<>>
    /\ \A v \in JudgeWords : ~Contains(lower_tokens(call.response), VerdictWord(v))
    /\ call.result = "incorrect"

\* the intents of a returned call of parse before their validation: the
\* classifier's, or the answer made of the raw input
Unvalidated == parse_response(call.content, call.user_input).intents

Classified == call.fn = "parse" /\ call.pc = "done" /\ call.content.kind # "none"

\* C13: whatever the length of the current question, an answer intent whose
\* text is the question verbatim, or is more than 0.70 similar to it, leaves
\* the parser as a skip intent.
EchoedQuestionBecomesSkip ==
    (Classified /\ call.current_question # <<>>) =>
        \A i \in 1..Len(Unvalidated) :
            (/\ Unvalidated[i].intent_type = "answer"
             /\ \/ Unvalidated[i].answer = call.current_question
                \/ ratio_exceeds(lower(Unvalidated[i].answer),
                                 lower(call.current_question)))
            => call.intents[i].intent_type = "skip"

\* C14: every answer intent the parser returns has at most 100 characters;
\* an answer of more than 100 characters, the classifier's or the raw input
\* taken as the answer, is returned as a skip intent without data.
ReturnedAnswersAtMostHundred ==
    Classified =>
        /\ \A i \in 1..Len(call.intents) :
              call.intents[i].intent_type = "answer" =>
                 Len(call.intents[i].answer) <= 100
        /\ \A i \in 1..Len(Unvalidated) :
              (/\ Unvalidated[i].intent_type = "answer"
               /\ Len(Unvalidated[i].answer) > 100)
              => /\ call.intents[i].intent_type = "skip"
                 /\ call.intents[i].answer = <<>>

\* a raw input of more than 100 characters, taken as the answer because the
\* reply was not JSON, was returned as a skip
LongRawInputSkipped ==
    /\ Classified
    /\ call.content.kind = "malformed"
    /\ Len(call.user_input) > 100
    /\ Len(call.intents) = 1
    /\ call.intents[1].intent_type = "skip"
    /\ call.intents[1].confirmation = "too_long"

\* C15: when the classifier's reply is not the structured object of intents,
\* parse returns exactly one intent, an answer whose text is the raw input
\* verbatim, and never an empty list.
UnparsedReplyYieldsRawAnswer ==
    (/\ call.fn = "parse"
     /\ call.content.kind \in {"text", "malformed", "no_intents", "null_intents"})
    => /\ call.pc = "done"
       /\ call.intents = <<ParsedIntent("answer", call.user_input, "none")>>

Returned == call.fn = "get_next_question" /\ call.pc = "done"

ExcludedIds ==
    SeqToSet(call.session.asked_question_ids) \cup call.client_excluded_ids

\* C16: get_next_question never returns a question whose id is in the
\* session's asked_question_ids or in the client's exclusion list, whichever
\* search of the chain found the candidates.
NeverReturnsExcluded ==
    (Returned /\ call.selected # NoQuestion) => call.selected \notin ExcludedIds

\* a question returned by a fallback search while asked and client-excluded
\* questions of its kind are in the store
ReturnedBesideExcluded ==
    /\ Returned
    /\ call.selected # NoQuestion
    /\ call.session.asked_question_ids # <<>>
    /\ call.client_excluded_ids # {}
    /\ ~call.ups[1].up
    /\ \E q \in ExcludedIds \cap collection :
          /\ QType(q) = "text"
          /\ QReviewStatus(q) = "approved"

\* the approved text questions of the store that are not excluded
Eligible ==
    {q \in collection : /\ QType(q) = "text"
                        /\ QReviewStatus(q) = "approved"
                        /\ q \notin ExcludedIds}

AllAnswered == \A i \in 1..6 : call.ups[i].up

\* C17: when the store answers every search, get_next_question returns a
\* question whenever the store holds an approved text question that is not
\* excluded, and None only when it holds none.
ReturnsQuestionIfAny ==
    (/\ call.fn = "get_next_question"
     /\ call.pc # "start"
     /\ AllAnswered)
    => IF Eligible = {}
       THEN call.pc = "done" /\ call.selected = NoQuestion
       ELSE \/ call.pc = "selecting"
            \/ call.pc = "done" /\ call.selected \in Eligible

\* the chain of searches is total: when the store answers every search it
\* yields candidates exactly when an eligible question exists
ChainIsTotal ==
    (/\ call.fn = "get_next_question"
     /\ call.pc # "start"
     /\ AllAnswered)
    => (call.candidates = {} <=> Eligible = {})

\* C18: a question outside the session's preferred categories is a candidate
\* only when no question within them, of the session's difficulty or of
\* either other difficulty, is eligible: the category constraint is the
\* last but one to be dropped.
CategoryDroppedLast ==
    (/\ call.fn = "get_next_question"
     /\ call.pc # "start"
     /\ AllAnswered
     /\ call.session.preferred_categories # {}
     /\ \E q \in call.candidates :
           QCategory(q) \notin call.session.preferred_categories)
    => ~\E q \in Eligible : QCategory(q) \in call.session.preferred_categories

\* a similarity between two questions, in hundredths
StatedSimilarity(c, r) == ((c * r + c + r) % 5) * 25

\* the diversity score of a candidate: the mean of 1 - similarity to the
\* recent questions loaded; here their sum, in hundredths, every candidate
\* having the same recent questions
RECURSIVE StatedDiversity(_, _)
StatedDiversity(candidate, recent) ==
    IF recent = {} THEN 0
    ELSE LET r == CHOOSE r \in recent : TRUE
         IN  (100 - StatedSimilarity(candidate, r))
                + StatedDiversity(candidate, recent \ {r})

\* C19: with a question asked and the recent questions loaded, the selection
\* returns a candidate, and fewer than 5 candidates have a higher diversity
\* score than the one it returns.
SelectsAmongFiveMostDiverse ==
    (/\ call.fn = "get_next_question"
     /\ call.pc \notin {"start", "selecting"}
     /\ call.session.asked_question_ids # <<>>
     /\ call.recent_questions # {})
    => /\ call.pc = "done"
       /\ call.selected \in call.candidates
       /\ Cardinality({c \in call.candidates :
             StatedDiversity(c, call.recent_questions)
                > StatedDiversity(call.selected, call.recent_questions)}) < 5

\* C20: a failure of the store, the judge or the classifier during a turn
\* reaches the caller as a failure: the turn never reports the session as
\* out of questions while the store holds an approved text question that
\* the session has not asked, and a failed turn reports no evaluation.
FailureIsNotExhaustion ==
    /\ (resp.op \in {"input", "voice"} /\ resp.message = "no_more_questions") =>
          ~\E q \in collection :
              /\ QType(q) = "text"
              /\ QReviewStatus(q) = "approved"
              /\ q \notin SeqToSet(session_objs[resp.sid].asked_question_ids)
    /\ (resp.op \in {"input", "voice"} /\ resp.status = 500) =>
          resp.evaluation = "none"

\* the session is stored and its expires_at lies before the time of the call
StoredExpired(sid) ==
    sid \in sessions /\ session_objs[sid].expires_at < now

\* C21: a session whose expires_at lies before the time of the call is never
\* returned by get_session, which evicts it and returns None; the sweep
\* removes exactly the stored sessions with expires_at < now and leaves the
\* unexpired sessions as they are.
ExpiredNeverReturnedSweepExact ==
    [][/\ \A sid \in ManagedIds :
             ManagerGet(sid) /\ StoredExpired(sid)
             => /\ ~call'.result
                /\ sid \notin sessions'
                /\ sessions' = sessions \ {sid}
       /\ \A sid \in ManagedIds :
             ManagerGet(sid) /\ call'.result
             => sid \in sessions /\ session_objs[sid].expires_at >= now
       /\ ManagerCleanup
          => /\ sessions' = {sid \in sessions :
                                session_objs[sid].expires_at >= now}
             /\ session_objs' = session_objs]_vars

\* get_session was called for an expired session, returned None and evicted
\* it, while another session stays stored
ExpiredReadEvicted ==
    /\ call.fn = "get_session"
    /\ Created(call.session_id)
    /\ session_objs[call.session_id].expires_at < now
    /\ ~call.result
    /\ call.session_id \notin sessions
    /\ sessions # {}

\* the id resolves to no session: none is stored under it, or the one stored
\* has expired
Unresolved(sid) == sid \notin sessions \/ StoredExpired(sid)

\* a call of a store operation addressed to the session id
AddressedTo(sid) ==
    \/ ManagerGet(sid)
    \/ ManagerUpdate(sid)
    \/ ManagerDelete(sid)
    \/ ManagerExtend(sid, TtlMinutes)
    \/ \E p \in 1..(MaxParticipants + 1) : ManagerAddParticipant(sid, p)
    \/ \E p \in 1..(MaxParticipants + 1) : ManagerRemoveParticipant(sid, p)

\* C26: every store operation (get, update, delete, extend, add or remove
\* participant) addressed to an unknown or expired session id, and
\* remove_participant addressed to a participant id that is not in the
\* session, reports not found and leaves every stored session as it is (an
\* expired session may be evicted, no other leaves the store).
UnresolvedIsNotFound ==
    [][/\ \A sid \in ManagedIds :
             AddressedTo(sid) /\ Unresolved(sid)
             => /\ ~call'.result
                /\ session_objs' = session_objs
                /\ sessions' \subseteq sessions
                /\ \A s \in sessions : ~StoredExpired(s) => s \in sessions'
       /\ \A sid \in ManagedIds, p \in 1..(MaxParticipants + 1) :
             /\ ManagerRemoveParticipant(sid, p)
             /\ Found(sid)
             /\ \A i \in 1..Len(session_objs[sid].participants) :
                   session_objs[sid].participants[i].participant_id # p
             => /\ ~call'.result
                /\ session_objs' = session_objs
                /\ sessions' = sessions]_vars

\* the state the terminal quiz has after process_input handled one intent
AfterIntent(state, intent) ==
    Merge(state, handle_intent(state, NoIntentYet, intent).result)

StatedStep(current_difficulty, direction) ==
    CASE direction = "easier" /\ current_difficulty = "hard" -> "medium"
      [] direction = "easier" -> "easy"
      [] direction = "harder" /\ current_difficulty = "easy" -> "medium"
      [] OTHER -> "hard"

\* C23: a difficulty_change moves current_difficulty one step along
\* easy < medium < hard in the requested direction, clamped at easy and at
\* hard, and after every turn current_difficulty is one of easy, medium,
\* hard and random, also in a session of random difficulty.
DifficultyMovesOneStep ==
    [][/\ \A sid \in 1..Len(session_objs') :
             session_objs'[sid].current_difficulty
                \in SeqToSet(Difficulties) \cup {"random"}
       /\ quiz'.current_difficulty \in SeqToSet(Difficulties) \cup {"random"}
       /\ \A turn \in BagToSet(inflight), d \in {"harder", "easier"} :
             /\ ParseReturn(turn, <<Intent("difficulty_change", <<d>>)>>)
             /\ session_objs[turn.sid].current_difficulty
                   \in SeqToSet(Difficulties)
             => session_objs'[turn.sid].current_difficulty =
                   StatedStep(session_objs[turn.sid].current_difficulty, d)
       /\ \A d \in {"harder", "easier"} :
             ProcessInput("other", <<GraphIntent("preference_change", d, FALSE)>>)
             => quiz'.current_difficulty =
                   StatedStep(quiz.current_difficulty, d)]_vars

Selected == SeqToSet(call.selected_questions)

\* C24: the Best-of-N selection returns the first min(want, n) candidates of
\* the list sorted by score, highest first: no candidate left out has a
\* higher score than a selected one, and candidates of equal score keep
\* their order of generation, at the cut-off too.
SelectionIsStableTop ==
    call.fn = "generate_questions" /\ call.pc # "critiqued" =>
       LET scores == call.scores
           sel == call.selected_questions
           n == Len(scores)
       IN  /\ Len(sel) = IF call.count < n THEN call.count ELSE n
           /\ Selected \subseteq 1..n
           /\ NoDuplicates(sel)
           /\ \A a, b \in 1..Len(sel) :
                 a < b => \/ scores[sel[a]] > scores[sel[b]]
                          \/ scores[sel[a]] = scores[sel[b]] /\ sel[a] < sel[b]
           /\ \A i \in Selected, j \in (1..n) \ Selected :
                 \/ scores[j] < scores[i]
                 \/ scores[j] = scores[i] /\ i < j

\* a selection that cut between two candidates of the same score
TieAtCutOff ==
    /\ call.fn = "generate_questions"
    /\ call.pc = "selected"
    /\ call.count = 2
    /\ \E i \in Selected, j \in (1..Len(call.scores)) \ Selected :
          call.scores[i] = call.scores[j]
    /\ \E i, j \in Selected : call.scores[i] = call.scores[j] /\ i # j

\* the selected candidates that scored below the floor
BelowFloor ==
    {i \in Selected : call.scores[i] < call.min_quality_score}

\* C25: the selection drops no selected candidate for scoring below the
\* floor, and the caller is given the number of selected candidates below
\* the floor: scores [9,8,6,5,3] with want 3 and floor 7 give the selection
\* [9,8,6] and a reported count of 1.
BelowFloorCountSurfaced ==
    call.fn = "generate_questions" /\ call.pc = "responded" =>
       /\ call.stats.selected_count =
             IF call.count < Len(call.scores) THEN call.count
             ELSE Len(call.scores)
       /\ \E k \in DOMAIN call.stats :
             /\ k \in {"below_floor_count", "low_quality_count"}
             /\ call.stats[k] = Cardinality(BelowFloor)
       /\ call.scores = <<9, 8, 6, 5, 3>> /\ call.count = 3
          /\ call.min_quality_score = 7
          => /\ call.selected_questions = <<1, 2, 3>>
             /\ Cardinality(BelowFloor) = 1

\* C27: with turns submitted fairly and a store that does not run out of
\* questions, every started session eventually reaches finished: it goes
\* back to asking while fewer than max_questions questions were asked, and
\* the turn for the max_questions-th question finishes it.
StartedEventuallyFinishes ==
    \A sid \in SessionIds :
       (Created(sid) /\ session_objs[sid].phase = "asking")
          ~> (Created(sid) /\ session_objs[sid].phase = "finished")

\* C28: for every question, evaluate returns (skipped, 0.0) for an empty
\* answer and for an answer of nothing but whitespace, and does not call the
\* judge.
BlankIsSkippedUnjudged ==
    call.fn = "evaluate" /\ call.pc # "start" /\ Blank(call.user_answer) =>
       /\ call.pc = "done"
       /\ call.result = "skipped"
       /\ call.score = 0
       /\ call.judge_calls = 0

\* an answer of blanks was evaluated on a question whose answer is a blank
\* too, which it matches once normalized
BlankAnswerEvaluated ==
    /\ call.fn = "evaluate"
    /\ call.pc = "done"
    /\ call.user_answer = <<" ", " ">>
    /\ ~call.question.is_list
    /\ call.question.correct_answer = <<" ">>
    /\ call.result = "skipped"

\* C29: a start or turn request that ends in an error leaves the stored
\* session as it was before the request. Stated of the step in which the
\* request fails: when a start, text or voice request answers 500, no
\* session has changed and none has entered or left the store.
FailedRequestLeavesSession ==
    [][/\ resp' # resp
       /\ resp'.op \in {"start", "input", "voice"}
       /\ resp'.status = 500
       => /\ session_objs' = session_objs
          /\ sessions' = sessions]_vars

\* the classifier found a start command in the input
HasStart(intents) ==
    \E i \in 1..Len(intents) : intents[i].intent_type = "start"

\* C30: the start transition fires only from idle, where it sets the phase
\* to asking with score 0 and an empty asked-history before the first
\* question; a start command received in any other phase resets neither the
\* score nor the question counter nor the asked-history.
StartOnlyFromIdle ==
    [][/\ node = "input" /\ quiz.phase = "idle" /\ quiz'.phase = "asking"
          => /\ quiz'.score = 0
             /\ quiz'.question_number = 1
             /\ quiz'.asked_questions = <<>>
       /\ \A intents \in GraphIntentLists(MaxIntents) :
             /\ HasStart(intents)
             /\ quiz.phase # "idle"
             /\ ProcessInput("other", intents)
             => /\ quiz'.score = quiz.score
                /\ quiz'.question_number = quiz.question_number
                /\ quiz'.asked_questions = quiz.asked_questions]_vars

\* how many times x occurs in seq
Occurrences(seq, x) == Cardinality({i \in 1..Len(seq) : seq[i] = x})

\* C31: a turn on a question that is evaluated as skipped has the outcome
\* skipped, leaves the score as it was, and the skipped list holds the
\* number of the skipped question once.
SkipRecordedOnce ==
    [][/\ node = "evaluate_answer"
       /\ node' = "find_source"
       /\ quiz.phase = "evaluating"
       /\ quiz.current_question # NoQuestion
       /\ quiz'.last_result = "skipped"
       => /\ quiz'.score = quiz.score
          /\ Occurrences(quiz'.skipped_question_numbers,
                         quiz.question_number) = 1]_vars

\* C32: every question get_next_question returns is a text question whose
\* review status is approved, whichever search of the chain found it, the
\* last one with minimal constraints included.
ReturnedIsApprovedText ==
    /\ Returned /\ call.selected # NoQuestion
       => /\ QType(call.selected) = "text"
          /\ QReviewStatus(call.selected) = "approved"
    /\ call.fn = "get_next_question"
       => \A q \in call.candidates :
             QType(q) = "text" /\ QReviewStatus(q) = "approved"

\* a question returned by the last search of the chain (the fifth, after
\* the primary, the generic and the two other difficulties), the store
\* holding questions not excluded that are not text or not approved
ReturnedByLastResort ==
    /\ Returned
    /\ call.selected # NoQuestion
    /\ \A i \in 1..4 : ~call.ups[i].up
    /\ call.ups[5].up
    /\ \E q \in collection \ ExcludedIds : QType(q) # "text"
    /\ \E q \in collection \ ExcludedIds : QReviewStatus(q) # "approved"

\* the intents of a list that evaluate to something other than skipped:
\* the answers whose text is not empty
NotSkipped(intents) ==
    Cardinality({i \in 1..Len(intents) :
                   /\ intents[i].intent_type = "answer"
                   /\ evaluate_fast(intents[i].data) # "skipped"})

\* C33: answered_count counts answered questions only: a turn adds to it one
\* for each evaluation that is not skipped, so a skip intent and an answer
\* intent with empty text leave it unchanged.
AnsweredCountsAnswers ==
    [][\A turn \in BagToSet(inflight), intents \in IntentLists(MaxIntents) :
          /\ ParseReturn(turn, intents)
          /\ \A i \in 1..Len(intents) : ~NeedsJudge(intents[i])
          => LET before == session_objs[turn.sid].participants
                 after == session_objs'[turn.sid].participants
             IN  /\ Len(after) = Len(before)
                 /\ \A p \in 1..Len(before) :
                       after[p].answered_count =
                          before[p].answered_count + NotSkipped(intents)]_vars

\* C34: a quit command ends the quiz: the turn that carries it and is
\* answered moves the session to finished and appends no question to the
\* asked history.
QuitEndsQuiz ==
    [][\A sid \in SessionIds, participant_id \in ParticipantIds :
          /\ Found(sid)
          /\ session_objs[sid].phase \in {"asking", "awaiting_answer"}
          /\ get_question(session_objs[sid].current_question_id) # NoQuestion
          /\ BeginTurn(sid, participant_id, FALSE, "quit")
          /\ resp'.status = 200
          => /\ session_objs'[sid].phase = "finished"
             /\ session_objs'[sid].asked_question_ids =
                   session_objs[sid].asked_question_ids]_vars

\* C35: a reply of the judge that contains the word incorrect and neither
\* partially_correct nor partially_incorrect is never evaluated as correct
\* and never adds 1.0 to the score.
IncorrectNeverReadAsCorrect ==
    (call.fn = "evaluate" /\ call.judge_calls = 1 /\ call.pc = "done") =>
        LET text == strip(lower_tokens(call.response))
        IN  (/\ Contains(text, VerdictWord("incorrect"))
             /\ ~Contains(text, VerdictWord("partially_correct"))
             /\ ~Contains(text, VerdictWord("partially_incorrect")))
            => call.result # "correct" /\ call.score # StatedDelta("correct")

\* C36: the outcome of an answer turn depends on that turn alone: an answer
\* that is not empty, given to a question that no skip of this turn has
\* recorded, is evaluated against the correct answer and is not treated as
\* skipped, whatever the earlier turns were (every question numbered so
\* far having been asked, and nothing skipped before the first question).
AnswerAfterSkipIsEvaluated ==
    [][/\ node = "evaluate_answer"
       /\ node' = "find_source"
       /\ quiz.last_user_answer \in {"exact", "other"}
       /\ quiz.current_question # NoQuestion
       /\ quiz.question_number \notin SeqToSet(quiz.skipped_question_numbers)
       /\ Len(quiz.asked_questions) = quiz.question_number
       /\ 0 \notin SeqToSet(quiz.skipped_question_numbers)
       => /\ quiz'.last_result # "skipped"
          /\ quiz.last_user_answer = "exact" => quiz'.last_result = "correct"]_vars

\* C37: for every participant of every session, 0 <= score <= answered_count
\* <= the number of questions asked in the session (scores are in quarter
\* points, an evaluation adding at most 4).
ScoreWithinAnsweredWithinAsked ==
    \A sid \in 1..Len(session_objs) :
       LET session == session_objs[sid]
       IN  \A p \in 1..Len(session.participants) :
              /\ 0 <= session.participants[p].score
              /\ session.participants[p].score
                    <= score_delta("correct") * session.participants[p].answered_count
              /\ session.participants[p].answered_count
                    <= Len(session.asked_question_ids)

\* C38: while a session's phase is asking or awaiting_answer, its
\* current_question_id is set and is the last element of its
\* asked_question_ids.
CurrentIsLastAsked ==
    \A sid \in 1..Len(session_objs) :
       LET session == session_objs[sid]
       IN  session.phase \in {"asking", "awaiting_answer"}
           => /\ session.current_question_id # NoQuestion
              /\ session.asked_question_ids # <<>>
              /\ session.current_question_id =
                    session.asked_question_ids[Len(session.asked_question_ids)]

\* the participants of a session that have is_host set
Hosts(session) ==
    {i \in 1..Len(session.participants) : session.participants[i].is_host}

\* C39: after any sequence of create_session, add_participant and
\* remove_participant calls, every session that has a participant has
\* exactly one participant with is_host set.
ExactlyOneHost ==
    \A sid \in 1..Len(session_objs) :
       session_objs[sid].participants # <<>>
          => Cardinality(Hosts(session_objs[sid])) = 1

\* the host was removed from a session and the participant who joined
\* after the host is the host now
HostRemovedAndReplaced ==
    /\ call.fn = "remove_participant"
    /\ call.result
    /\ call.participant_id = 1
    /\ Created(call.session_id)
    /\ Len(session_objs[call.session_id].participants) = 1
    /\ session_objs[call.session_id].participants[1].participant_id = 2
    /\ session_objs[call.session_id].participants[1].is_host

\* C40: whenever the quiz produces feedback or its final result (after a
\* start, with a question asked), the score does not exceed the number of
\* answered questions it reports, question_number less the length of the
\* skipped list; scores are in quarter points.
ScoreWithinReportedAnswered ==
    [][/\ \/ node = "provide_feedback"
          \/ node = "input" /\ quiz'.phase = "finished"
       /\ quiz.current_question # NoQuestion
       /\ 0 \notin SeqToSet(quiz.skipped_question_numbers)
       => quiz.score <= score_delta("correct")
                           * (quiz.question_number
                                 - Len(quiz.skipped_question_numbers))]_vars

====
